---- MODULE Spec2Model ----
(***************************************************************************)
(* Fit My Way: the IndexedDB persistence layer (services/db), the active   *)
(* workout runner (ActiveWorkout), the workout manager (WorkoutManager),   *)
(* the settings screen's reset, and the tolerant importer                  *)
(* (parseUniversalData).                                                   *)
(*                                                                         *)
(* Every db call is asynchronous: the caller hands a request to the        *)
(* database and goes on (or awaits).  Requests of one origin are served in *)
(* the order they were made (indexedDB.open requests of one database are   *)
(* queued, and readwrite transactions on one store run in the order they   *)
(* were created), so the requests in flight are the FIFO queue dbQueue.    *)
(* A handler together with the re-render and the effects it triggers is    *)
(* one step of the single UI thread.                                       *)
(***************************************************************************)
EXTENDS Integers, Sequences, FiniteSets, TLC

VARIABLES
    idb,      \* the four object stores of FitMyWayDB
    dbQueue,  \* db requests in flight, oldest first
    app,      \* App: activeWorkout, isResuming, the view shown
    aw,       \* the ActiveWorkout component (the runner)
    wm,       \* the WorkoutManager component
    hist,     \* history of the runs, read by the properties only
    importer, \* a call of parseUniversalData: its arguments and its outcome
    backup,   \* the settings screen's backup: the exported file and its import
    em,       \* the exercise library: the managers' lists and the ids drawn
    images    \* the OptimizedImage components and the download queue

vars == <<idb, dbQueue, app, aw, wm, hist, importer, backup, em, images>>

(***************************************************************************)
(* Bounds of the model.                                                    *)
(***************************************************************************)
MaxTimer == 2
MaxQueue == 2

(***************************************************************************)
(* Values.                                                                 *)
(***************************************************************************)
\* No import dialog is open; no backup is being made or read.
NoImport == [state |-> "idle"]
NoBackup == [state |-> "idle"]
NoManager == [state |-> "idle"]
NoImages == [state |-> "idle"]

\* restAfterExercise is optional: Undefined stands for a missing number.
Undefined == 0 - 1

\* getWorkouts' default for a missing (or zero) rest.
DefaultRest == 60

NoId == "null"

RepsSet(v) == [type |-> "reps", value |-> v, weight |-> 0]
TimeSet(v) == [type |-> "time", value |-> v, weight |-> 0]

WorkoutExercise(exId, sets, rest, restAfter) ==
    [exerciseId |-> exId, sets |-> sets, restTime |-> rest, restAfterExercise |-> restAfter]

MkWorkout(id, name, exs) == [id |-> id, name |-> name, exercises |-> exs]

NoWorkout == MkWorkout(NoId, "", <<>>)

\* ActiveSessionState; startTime (Date.now() at mount) is never read back.
Session(w, e, s, t) ==
    [id |-> "current", workoutId |-> w, currentExIndex |-> e, currentSetIndex |-> s, timer |-> t]

\* What store.get('current') resolves to when there is no record.
NoSession == [id |-> NoId, workoutId |-> NoId, currentExIndex |-> 0, currentSetIndex |-> 0, timer |-> 0]

Exercise(id, name) == [id |-> id, name |-> name]

(***************************************************************************)
(* services/db: object stores keyed by id.                                 *)
(***************************************************************************)
\* Put as an add that keeps what is stored under the key.
PutKeepsOld(store, rec) == store \cup {rec}

\* IDBObjectStore.put: the record replaces the one stored under its key.
Put(store, rec) == {r \in store : r.id # rec.id} \cup {rec}

\* IDBObjectStore.delete
Delete(store, key) == {r \in store : r.id # key}

\* IDBObjectStore.get; none stands for undefined.
Get(store, key, none) ==
    IF \E r \in store : r.id = key THEN CHOOSE r \in store : r.id = key ELSE none

saveActiveSession(d, session) == [d EXCEPT !.active_session = Put(@, session)]

getActiveSession(d) == Get(d.active_session, "current", NoSession)

clearActiveSession(d) == [d EXCEPT !.active_session = Delete(@, "current")]

getExercises(d) == d.exercises

deleteWorkout(d, id) == [d EXCEPT !.workouts = Delete(@, id)]

deleteExercise(d, id) == [d EXCEPT !.exercises = Delete(@, id)]

clearAll(d) == [exercises |-> {}, workouts |-> {}, settings |-> {}, active_session |-> {}]

\* getWorkouts sanitises what it reads: a rest of 0 (or none) between sets
\* becomes 60, a missing rest after the exercise becomes 60.
SanitizeExercise(e) ==
    [e EXCEPT !.restTime = IF e.restTime = 0 \/ e.restTime = Undefined THEN DefaultRest ELSE e.restTime,
              !.restAfterExercise = IF e.restAfterExercise = Undefined THEN DefaultRest
                                    ELSE e.restAfterExercise]

SanitizeWorkout(w) ==
    [w EXCEPT !.exercises = [i \in 1..Len(w.exercises) |-> SanitizeExercise(w.exercises[i])]]

getWorkouts(d) == {SanitizeWorkout(w) : w \in d.workouts}

\* A request in flight: the db call, its argument, and the handler that
\* awaits it ("" when the caller does not await: the runner's session save).
Req(op, session, id, then) == [op |-> op, session |-> session, id |-> id, then |-> then]

CanIssue == Len(dbQueue) < MaxQueue

(***************************************************************************)
(* ActiveWorkout: the runner.  Indices are 0-based as in the source.       *)
(***************************************************************************)
NullCountdown == Undefined

NoCompletedSet == [exIndex |-> Undefined, setIndex |-> Undefined]

\* The component's state right after it mounts (its useState initial values).
AwMounted(workout, resume) ==
    [mounted |-> TRUE, workout |-> workout, resume |-> resume,
     currentExIndex |-> 0, currentSetIndex |-> 0, exercises |-> {},
     isLoading |-> TRUE, timer |-> 0, isTimerRunning |-> TRUE,
     restTimer |-> 0, isResting |-> FALSE, afterExerciseRest |-> FALSE,
     setCountdown |-> NullCountdown, isSetCountdownRunning |-> FALSE,
     showFinishConfirm |-> FALSE, lastCompletedSet |-> NoCompletedSet,
     finishing |-> FALSE,
     closureExIndex |-> 0]

AwUnmounted == [AwMounted(NoWorkout, FALSE) EXCEPT !.mounted = FALSE]

HasEx(w, i) == i >= 0 /\ i < Len(w.exercises)

\* sets = Array.isArray(currentWorkoutExercise?.sets) ? ... : []
SetsOf(w, i) == IF HasEx(w, i) THEN w.exercises[i + 1].sets ELSE <<>>

HasSet(w, i, j) == j >= 0 /\ j < Len(SetsOf(w, i))

\* A totalSets that counts one set more than there are.
TotalSetsOneMore(s) == Len(SetsOf(s.workout, s.currentExIndex)) + 1

\* totalSets = sets.length || 1
TotalSets(s) ==
    IF Len(SetsOf(s.workout, s.currentExIndex)) = 0 THEN 1
    ELSE Len(SetsOf(s.workout, s.currentExIndex))

\* exerciseDef = exercises.find(e => e.id === currentWorkoutExercise?.exerciseId)
HasExerciseDef(s) ==
    /\ HasEx(s.workout, s.currentExIndex)
    /\ \E e \in s.exercises : e.id = s.workout.exercises[s.currentExIndex + 1].exerciseId

\* The runner's controls are rendered; otherwise only 'Loading...' is.
Displayed(s) ==
    /\ s.mounted
    /\ ~s.isLoading
    /\ HasExerciseDef(s)
    /\ HasSet(s.workout, s.currentExIndex, s.currentSetIndex)

\* The dependency lists of the three effects.
CountdownDeps(s) == <<s.currentExIndex, s.currentSetIndex, s.isResting, s.isLoading>>

\* The save effect without timer among its dependencies.
SaveDepsNoTimer(s) == <<s.currentExIndex, s.currentSetIndex, s.isLoading>>

SaveDeps(s) == <<s.currentExIndex, s.currentSetIndex, s.timer, s.isLoading>>

IntervalDeps(s) ==
    <<s.isTimerRunning, s.isResting, s.restTimer, s.isSetCountdownRunning,
      s.setCountdown, s.afterExerciseRest>>

\* A countdown effect that starts the countdown of a time-based set during a
\* rest too.
CountdownEffectDuringRest(o, n) ==
    IF n.isLoading \/ CountdownDeps(o) = CountdownDeps(n) THEN n
    ELSE IF /\ HasSet(n.workout, n.currentExIndex, n.currentSetIndex)
            /\ SetsOf(n.workout, n.currentExIndex)[n.currentSetIndex + 1].type = "time"
         THEN [n EXCEPT !.setCountdown =
                            SetsOf(n.workout, n.currentExIndex)[n.currentSetIndex + 1].value,
                        !.isSetCountdownRunning = TRUE]
         ELSE [n EXCEPT !.setCountdown = NullCountdown, !.isSetCountdownRunning = FALSE]

\* The countdown effect: a time-based current set outside a rest starts the
\* countdown, anything else clears it.
CountdownEffect(o, n) ==
    IF n.isLoading \/ CountdownDeps(o) = CountdownDeps(n) THEN n
    ELSE IF /\ HasSet(n.workout, n.currentExIndex, n.currentSetIndex)
            /\ SetsOf(n.workout, n.currentExIndex)[n.currentSetIndex + 1].type = "time"
            /\ ~n.isResting
         THEN [n EXCEPT !.setCountdown =
                            SetsOf(n.workout, n.currentExIndex)[n.currentSetIndex + 1].value,
                        !.isSetCountdownRunning = TRUE]
         ELSE [n EXCEPT !.setCountdown = NullCountdown, !.isSetCountdownRunning = FALSE]

\* The state after the handler's updates n are rendered from state o: the
\* countdown effect runs, and the interval is set up again (its callback then
\* sees the currentExIndex of this render) when one of its dependencies changed.
Render(o, n) ==
    LET n2 == CountdownEffect(o, n)
    IN  [n2 EXCEPT !.closureExIndex =
            IF IntervalDeps(o) # IntervalDeps(n) \/ IntervalDeps(n) # IntervalDeps(n2)
            THEN n.currentExIndex ELSE o.closureExIndex]

\* The session save effect fires when one of its dependencies changed and
\* loading is over.
SaveNeeded(o, n) == ~n.isLoading /\ SaveDeps(o) # SaveDeps(n)

SessionOf(s) == Session(s.workout.id, s.currentExIndex, s.currentSetIndex, s.timer)

\* db.saveActiveSession({id: 'current', ...}): not awaited.
SaveRequestOf(s) == Req("saveActiveSession", SessionOf(s), NoId, "")

QueueAfterRender(q, o, n) == IF SaveNeeded(o, n) THEN Append(q, SaveRequestOf(n)) ELSE q

(***************************************************************************)
(* History read by the properties: the values the runner last showed, the  *)
(* number of session saves of the mounted runner that have been committed, *)
(* what the last resume read and started from, and what confirmDelete      *)
(* found and left.  The fields about one step (resume, del) are kept for   *)
(* the state that follows that step only.                                  *)
(***************************************************************************)
NoResume == [valid |-> FALSE, start |-> NoSession, read |-> NoSession, prev |-> NoSession]

NoDelete == [id |-> NoId, before |-> NoSession, after |-> NoSession]

HistInit ==
    [lastRunner |-> NoSession, savesDone |-> 0,
     resume |-> NoResume, del |-> NoDelete, delBefore |-> NoSession, deletedIds |-> {}]

\* The history after a step that leaves the runner in state s.
HistStep(h, s) ==
    [h EXCEPT !.resume = NoResume, !.del = NoDelete,
              !.lastRunner = IF s.mounted /\ ~s.isLoading THEN SessionOf(s) ELSE @]

(***************************************************************************)
(* ActiveWorkout: handlers.  A handler's state updates are batched; the    *)
(* render and the effects that follow belong to the same step.             *)
(***************************************************************************)
\* The step of the runner from aw to the state n its handler asks for.
AwStep(n) ==
    /\ SaveNeeded(aw, n) => CanIssue
    /\ aw' = Render(aw, n)
    /\ dbQueue' = QueueAfterRender(dbQueue, aw, n)
    /\ UNCHANGED <<importer, backup, em, images>>
    /\ hist' = HistStep(hist, Render(aw, n))
    /\ UNCHANGED <<idb, app, wm>>

\* nextExercise as seen from a render (or a closure) whose currentExIndex is seen.
nextExercise(s, seen) ==
    IF seen < Len(s.workout.exercises) - 1
    THEN [s EXCEPT !.currentExIndex = @ + 1, !.currentSetIndex = 0, !.isResting = FALSE]
    ELSE s

prevExercise(s) ==
    IF s.currentExIndex > 0
    THEN [s EXCEPT !.currentExIndex = @ - 1, !.currentSetIndex = 0, !.isResting = FALSE]
    ELSE s

prevSet(s) == IF s.currentSetIndex > 0 THEN [s EXCEPT !.currentSetIndex = @ - 1] ELSE s

CurrentWorkoutExercise(s) == s.workout.exercises[s.currentExIndex + 1]

\* A nextSet that never starts a rest.
nextSetWithoutRest(s) ==
    IF s.currentSetIndex < TotalSets(s) - 1 THEN [s EXCEPT !.currentSetIndex = @ + 1]
    ELSE IF s.currentExIndex < Len(s.workout.exercises) - 1
    THEN nextExercise(s, s.currentExIndex)
    ELSE [s EXCEPT !.showFinishConfirm = TRUE]

nextSet(s) ==
    LET done == [s EXCEPT !.lastCompletedSet =
                     [exIndex |-> s.currentExIndex, setIndex |-> s.currentSetIndex]]
        isLastSetOfExercise == s.currentSetIndex >= TotalSets(s) - 1
        isLastExerciseOfWorkout == s.currentExIndex >= Len(s.workout.exercises) - 1
        wEx == CurrentWorkoutExercise(s)
    IN  IF ~isLastSetOfExercise
        THEN IF wEx.restTime > 0
             THEN [done EXCEPT !.currentSetIndex = @ + 1, !.restTimer = wEx.restTime,
                               !.isResting = TRUE, !.afterExerciseRest = FALSE]
             ELSE [done EXCEPT !.currentSetIndex = @ + 1]
        ELSE IF ~isLastExerciseOfWorkout
        THEN IF wEx.restAfterExercise # Undefined /\ wEx.restAfterExercise > 0
             THEN [done EXCEPT !.restTimer = wEx.restAfterExercise,
                               !.isResting = TRUE, !.afterExerciseRest = TRUE]
             ELSE nextExercise(done, s.currentExIndex)
        ELSE [done EXCEPT !.showFinishConfirm = TRUE]

handleSkipRest(s) ==
    LET r == [s EXCEPT !.isResting = FALSE, !.lastCompletedSet = NoCompletedSet]
    IN  IF s.afterExerciseRest
        THEN [nextExercise(r, s.currentExIndex) EXCEPT !.afterExerciseRest = FALSE]
        ELSE r

\* An interval callback that counts the rest down when it is at 0 too.
IntervalCallbackBelowZero(s) ==
    LET t1 == IF s.isTimerRunning THEN [s EXCEPT !.timer = @ + 1] ELSE s
        t2 == IF ~s.isResting THEN t1
              ELSE IF s.restTimer >= 0 THEN [t1 EXCEPT !.restTimer = @ - 1]
              ELSE LET r == [t1 EXCEPT !.isResting = FALSE, !.lastCompletedSet = NoCompletedSet]
                   IN  IF s.afterExerciseRest
                       THEN [nextExercise(r, s.closureExIndex) EXCEPT !.afterExerciseRest = FALSE]
                       ELSE r
        t3 == IF s.isSetCountdownRunning /\ s.setCountdown # NullCountdown /\ s.setCountdown > 0
              THEN [t2 EXCEPT !.setCountdown = @ - 1] ELSE t2
    IN  IF s.isSetCountdownRunning /\ s.setCountdown = 0
        THEN [t3 EXCEPT !.isSetCountdownRunning = FALSE] ELSE t3

\* The setInterval callback: it reads the state of the render that set the
\* interval up, which differs from the current one in currentExIndex at most.
IntervalCallback(s) ==
    LET t1 == IF s.isTimerRunning THEN [s EXCEPT !.timer = @ + 1] ELSE s
        t2 == IF ~s.isResting THEN t1
              ELSE IF s.restTimer > 0 THEN [t1 EXCEPT !.restTimer = @ - 1]
              ELSE LET r == [t1 EXCEPT !.isResting = FALSE, !.lastCompletedSet = NoCompletedSet]
                   IN  IF s.afterExerciseRest
                       THEN [nextExercise(r, s.closureExIndex) EXCEPT !.afterExerciseRest = FALSE]
                       ELSE r
        t3 == IF s.isSetCountdownRunning /\ s.setCountdown # NullCountdown /\ s.setCountdown > 0
              THEN [t2 EXCEPT !.setCountdown = @ - 1] ELSE t2
    IN  IF s.isSetCountdownRunning /\ s.setCountdown = 0
        THEN [t3 EXCEPT !.isSetCountdownRunning = FALSE] ELSE t3

\* The main controls can be pressed: neither the rest overlay nor the
\* finish dialog covers them.
ControlsFree(s) == Displayed(s) /\ ~s.isResting /\ ~s.showFinishConfirm

\* The rest overlay shows the skip button only when it can show what is next.
SkipShown(s) ==
    /\ Displayed(s) /\ s.isResting /\ ~s.showFinishConfirm
    /\ s.lastCompletedSet # NoCompletedSet
    /\ LET c == s.lastCompletedSet
           last == c.setIndex >= Len(SetsOf(s.workout, c.exIndex)) - 1
           nextExIdx == IF last THEN c.exIndex + 1 ELSE c.exIndex
           nextSetIdx == IF last THEN 0 ELSE c.setIndex + 1
       IN  HasSet(s.workout, nextExIdx, nextSetIdx)

Tick ==
    /\ aw.mounted
    /\ aw.isTimerRunning => aw.timer < MaxTimer
    /\ IntervalCallback(aw) # aw
    /\ AwStep(IntervalCallback(aw))

NextSet == ControlsFree(aw) /\ AwStep(nextSet(aw))

PrevSet == ControlsFree(aw) /\ aw.currentSetIndex # 0 /\ AwStep(prevSet(aw))

NextExercise ==
    /\ ControlsFree(aw)
    /\ aw.currentExIndex # Len(aw.workout.exercises) - 1
    /\ AwStep(nextExercise(aw, aw.currentExIndex))

PrevExercise == ControlsFree(aw) /\ aw.currentExIndex # 0 /\ AwStep(prevExercise(aw))

SkipRest == SkipShown(aw) /\ AwStep(handleSkipRest(aw))

ToggleTimer == ControlsFree(aw) /\ AwStep([aw EXCEPT !.isTimerRunning = ~@])

CancelFinish ==
    /\ aw.mounted /\ aw.showFinishConfirm
    /\ AwStep([aw EXCEPT !.showFinishConfirm = FALSE])

(***************************************************************************)
(* WorkoutManager and App.                                                 *)
(***************************************************************************)
WmMounted ==
    [mounted |-> TRUE, loaded |-> FALSE, workouts |-> {}, activeSession |-> NoSession,
     selectedWorkout |-> NoWorkout, workoutToDelete |-> NoId, mode |-> "list",
     deleting |-> FALSE]

WmUnmounted == [WmMounted EXCEPT !.mounted = FALSE]

AppInit == [activeWorkout |-> NoWorkout, isResuming |-> FALSE, view |-> "workouts"]

\* refreshData awaits getWorkouts, getExercises and getActiveSession in turn.
\* Nothing can write between the three reads (the manager's own handlers
\* await it; the runner is not mounted beside the manager), so they are one
\* request here.
RefreshRequest == Req("refreshData", NoSession, NoId, "wm.refreshData")

\* App's onClose: the runner goes, and the manager is mounted afresh (its key
\* changes with refreshTrigger) and loads its data.
onClose ==
    /\ app' = [app EXCEPT !.activeWorkout = NoWorkout, !.isResuming = FALSE]
    /\ aw' = AwUnmounted
    /\ wm' = IF app.view = "workouts" THEN WmMounted ELSE wm

\* The X button of the runner.
Close ==
    /\ ControlsFree(aw)
    /\ CanIssue
    /\ onClose
    /\ dbQueue' = Append(dbQueue, RefreshRequest)
    /\ UNCHANGED <<importer, backup, em, images>>
    /\ hist' = HistStep(hist, AwUnmounted)
    /\ UNCHANGED idb

\* handleConfirmFinish up to its await.
ConfirmFinish ==
    /\ aw.mounted /\ aw.showFinishConfirm /\ ~aw.finishing
    /\ CanIssue
    /\ aw' = [aw EXCEPT !.finishing = TRUE]
    /\ dbQueue' = Append(dbQueue, Req("clearActiveSession", NoSession, NoId, "aw.handleConfirmFinish"))
    /\ UNCHANGED <<importer, backup, em, images>>
    /\ hist' = HistStep(hist, aw)
    /\ UNCHANGED <<idb, app, wm>>

\* handleConfirmFinish after the session is cleared: the dialog goes and the
\* view closes (onClose also runs when the runner was closed meanwhile).
AwFinishCleared ==
    /\ dbQueue # <<>>
    /\ Head(dbQueue).then = "aw.handleConfirmFinish"
    /\ idb' = clearActiveSession(idb)
    /\ onClose
    /\ dbQueue' = IF app.view = "workouts" THEN Append(Tail(dbQueue), RefreshRequest)
                  ELSE Tail(dbQueue)
    /\ UNCHANGED <<importer, backup, em, images>>
    /\ hist' = HistStep(hist, AwUnmounted)

\* The runner's fire-and-forget session save reaches the store.
DbSaveActiveSession ==
    /\ dbQueue # <<>>
    /\ Head(dbQueue).op = "saveActiveSession"
    /\ idb' = saveActiveSession(idb, Head(dbQueue).session)
    /\ dbQueue' = Tail(dbQueue)
    /\ UNCHANGED <<importer, backup, em, images>>
    /\ hist' = [HistStep(hist, aw) EXCEPT !.savesDone = IF @ < 2 THEN @ + 1 ELSE @]
    /\ UNCHANGED <<app, aw, wm>>

\* init: 'all = await db.getExercises(); setExercises(all)', then the session
\* is read (resume) or cleared.
InitSessionRequest(resume) ==
    IF resume THEN Req("getActiveSession", NoSession, NoId, "aw.init.session")
    ELSE Req("clearActiveSession", NoSession, NoId, "aw.init.session")

AwInitGotExercises ==
    /\ dbQueue # <<>>
    /\ Head(dbQueue).then = "aw.init.exercises"
    /\ aw' = Render(aw, [aw EXCEPT !.exercises = getExercises(idb)])
    /\ dbQueue' = Append(Tail(dbQueue), InitSessionRequest(aw.resume))
    /\ UNCHANGED <<importer, backup, em, images>>
    /\ hist' = HistStep(hist, aw)
    /\ UNCHANGED <<idb, app, wm>>

\* if (session && session.workoutId === workout.id)
SessionMatches(session, workout) == session.id # NoId /\ session.workoutId = workout.id

\* The state init leaves when the session it awaited is there.
InitLoaded(s, session) ==
    IF s.resume /\ SessionMatches(session, s.workout)
    THEN [s EXCEPT !.currentExIndex = session.currentExIndex,
                   !.currentSetIndex = session.currentSetIndex,
                   !.timer = session.timer,
                   !.isLoading = FALSE]
    ELSE [s EXCEPT !.isLoading = FALSE]

AwInitSession ==
    /\ dbQueue # <<>>
    /\ Head(dbQueue).then = "aw.init.session"
    /\ idb' = IF Head(dbQueue).op = "clearActiveSession" THEN clearActiveSession(idb) ELSE idb
    /\ LET session == getActiveSession(idb)
           n == Render(aw, InitLoaded(aw, session))
       IN  /\ aw' = n
           /\ dbQueue' = QueueAfterRender(Tail(dbQueue), aw, InitLoaded(aw, session))
           /\ UNCHANGED <<importer, backup, em, images>>
           /\ hist' = [HistStep(hist, n) EXCEPT
                         !.resume = IF aw.resume /\ SessionMatches(session, aw.workout)
                                    THEN [valid |-> TRUE, start |-> SessionOf(n),
                                          read |-> session, prev |-> hist.lastRunner]
                                    ELSE NoResume]
    /\ UNCHANGED <<app, wm>>

\* refreshData's reads are there: setWorkouts, setAllExercises, setActiveSession.
WmRefreshed ==
    /\ dbQueue # <<>>
    /\ Head(dbQueue).then = "wm.refreshData"
    /\ wm' = IF wm.mounted
             THEN [wm EXCEPT !.loaded = TRUE, !.workouts = getWorkouts(idb),
                             !.activeSession = getActiveSession(idb)]
             ELSE wm
    /\ dbQueue' = Tail(dbQueue)
    /\ UNCHANGED <<importer, backup, em, images>>
    /\ hist' = HistStep(hist, aw)
    /\ UNCHANGED <<idb, app, aw>>

\* No dialog of the manager is open and no handler of it is waiting.
WmIdle == wm.mounted /\ wm.loaded /\ wm.workoutToDelete = NoId /\ ~wm.deleting

SelectWorkout(w) ==
    /\ WmIdle
    /\ w \in wm.workouts
    /\ wm.selectedWorkout # w
    /\ wm' = [wm EXCEPT !.selectedWorkout = w, !.mode = "detail"]
    /\ UNCHANGED <<importer, backup, em, images>>
    /\ hist' = HistStep(hist, aw)
    /\ UNCHANGED <<idb, dbQueue, app, aw>>

\* isResumable = activeSession?.workoutId === selectedWorkout.id
isResumable(m) == m.activeSession.id # NoId /\ m.activeSession.workoutId = m.selectedWorkout.id

\* onStartWorkout(selectedWorkout, resume): App mounts the runner in place of
\* the manager, and the runner's init starts with db.getExercises().
StartWorkout(resume) ==
    /\ WmIdle
    /\ wm.mode = "detail"
    /\ resume => isResumable(wm)
    /\ CanIssue
    /\ app' = [app EXCEPT !.activeWorkout = wm.selectedWorkout, !.isResuming = resume]
    /\ aw' = AwMounted(wm.selectedWorkout, resume)
    /\ wm' = WmUnmounted
    /\ dbQueue' = Append(dbQueue, Req("getExercises", NoSession, NoId, "aw.init.exercises"))
    /\ UNCHANGED <<importer, backup, em, images>>
    /\ hist' = [HistStep(hist, AwMounted(wm.selectedWorkout, resume)) EXCEPT !.savesDone = 0]
    /\ UNCHANGED idb

PromptDelete(id) ==
    /\ WmIdle
    /\ \E w \in wm.workouts : w.id = id
    /\ wm' = [wm EXCEPT !.workoutToDelete = id]
    /\ UNCHANGED <<importer, backup, em, images>>
    /\ hist' = HistStep(hist, aw)
    /\ UNCHANGED <<idb, dbQueue, app, aw>>

CancelDelete ==
    /\ wm.mounted /\ wm.workoutToDelete # NoId /\ ~wm.deleting
    /\ wm' = [wm EXCEPT !.workoutToDelete = NoId]
    /\ UNCHANGED <<importer, backup, em, images>>
    /\ hist' = HistStep(hist, aw)
    /\ UNCHANGED <<idb, dbQueue, app, aw>>

\* confirmDelete up to its first await.
ConfirmDelete ==
    /\ wm.mounted /\ wm.workoutToDelete # NoId /\ ~wm.deleting
    /\ CanIssue
    /\ wm' = [wm EXCEPT !.deleting = TRUE]
    /\ dbQueue' = Append(dbQueue, Req("getActiveSession", NoSession, wm.workoutToDelete,
                                      "wm.confirmDelete.session"))
    /\ UNCHANGED <<importer, backup, em, images>>
    /\ hist' = HistStep(hist, aw)
    /\ UNCHANGED <<idb, app, aw>>

\* The cleanup test comparing the record's key with the workout's id.
NeedsCleanupByKey(currentSession, workoutToDelete) ==
    currentSession.id # NoId /\ currentSession.id = workoutToDelete

\* CLEANUP: if there is an active session for this workout, clear it.
NeedsCleanup(currentSession, workoutToDelete) ==
    currentSession.id # NoId /\ currentSession.workoutId = workoutToDelete

WmDeleteGotSession ==
    /\ dbQueue # <<>>
    /\ Head(dbQueue).then = "wm.confirmDelete.session"
    /\ LET id == Head(dbQueue).id
       IN  dbQueue' = Append(Tail(dbQueue),
                IF NeedsCleanup(getActiveSession(idb), id)
                THEN Req("clearActiveSession", NoSession, id, "wm.confirmDelete.cleared")
                ELSE Req("deleteWorkout", NoSession, id, "wm.confirmDelete.deleted"))
    /\ UNCHANGED <<importer, backup, em, images>>
    /\ hist' = [HistStep(hist, aw) EXCEPT !.delBefore = getActiveSession(idb)]
    /\ UNCHANGED <<idb, app, aw, wm>>

WmDeleteCleared ==
    /\ dbQueue # <<>>
    /\ Head(dbQueue).then = "wm.confirmDelete.cleared"
    /\ idb' = clearActiveSession(idb)
    /\ dbQueue' = Append(Tail(dbQueue),
                         Req("deleteWorkout", NoSession, Head(dbQueue).id, "wm.confirmDelete.deleted"))
    /\ UNCHANGED <<importer, backup, em, images>>
    /\ hist' = HistStep(hist, aw)
    /\ UNCHANGED <<app, aw, wm>>

\* The workout is deleted; refreshData follows.
WmDeleteDeleted ==
    /\ dbQueue # <<>>
    /\ Head(dbQueue).then = "wm.confirmDelete.deleted"
    /\ idb' = deleteWorkout(idb, Head(dbQueue).id)
    /\ dbQueue' = Append(Tail(dbQueue),
                         Req("refreshData", NoSession, Head(dbQueue).id, "wm.confirmDelete.refreshed"))
    /\ UNCHANGED <<importer, backup, em, images>>
    /\ hist' = [HistStep(hist, aw) EXCEPT
                  !.del = [id |-> Head(dbQueue).id, before |-> hist.delBefore,
                           after |-> getActiveSession(idb)],
                  !.deletedIds = @ \cup {Head(dbQueue).id}]
    /\ UNCHANGED <<app, aw, wm>>

\* The rest of confirmDelete: the list is shown again, the dialog closes.
WmDeleteRefreshed ==
    /\ dbQueue # <<>>
    /\ Head(dbQueue).then = "wm.confirmDelete.refreshed"
    /\ wm' = IF wm.mounted
             THEN [wm EXCEPT !.workouts = getWorkouts(idb),
                             !.activeSession = getActiveSession(idb),
                             !.mode = "list", !.selectedWorkout = NoWorkout,
                             !.workoutToDelete = NoId, !.deleting = FALSE]
             ELSE wm
    /\ dbQueue' = Tail(dbQueue)
    /\ UNCHANGED <<importer, backup, em, images>>
    /\ hist' = HistStep(hist, aw)
    /\ UNCHANGED <<idb, app, aw>>

(***************************************************************************)
(* Settings: confirmReset clears every store and reloads the page.         *)
(***************************************************************************)
\* The settings tab of the navigation bar; the manager is unmounted.
OpenSettings ==
    /\ ~aw.mounted
    /\ app.view = "workouts"
    /\ WmIdle
    /\ app' = [app EXCEPT !.view = "settings"]
    /\ wm' = WmUnmounted
    /\ UNCHANGED <<importer, backup, em, images>>
    /\ hist' = HistStep(hist, aw)
    /\ UNCHANGED <<idb, dbQueue, aw>>

SettingsRequests == {"clearAll", "exportData", "importData"}

\* The workouts tab, when no request of the settings screen is pending: the
\* manager is mounted anew and refreshes.
OpenWorkouts ==
    /\ app.view = "settings"
    /\ CanIssue
    /\ \A i \in 1..Len(dbQueue) : dbQueue[i].op \notin SettingsRequests
    /\ app' = [app EXCEPT !.view = "workouts"]
    /\ wm' = WmMounted
    /\ dbQueue' = Append(dbQueue, RefreshRequest)
    /\ UNCHANGED <<importer, backup, em, images>>
    /\ hist' = HistStep(hist, aw)
    /\ UNCHANGED <<idb, aw>>

\* confirmReset, up to await db.clearAll().
ConfirmReset ==
    /\ app.view = "settings"
    /\ CanIssue
    /\ \A i \in 1..Len(dbQueue) : dbQueue[i].op \notin SettingsRequests
    /\ dbQueue' = Append(dbQueue, Req("clearAll", NoSession, NoId, "settings.confirmReset"))
    /\ UNCHANGED <<importer, backup, em, images>>
    /\ hist' = HistStep(hist, aw)
    /\ UNCHANGED <<idb, app, aw, wm>>

\* 'await db.clearAll(); window.location.reload()': the page starts again
\* on the workouts view.
SettingsResetDone ==
    /\ dbQueue # <<>>
    /\ Head(dbQueue).then = "settings.confirmReset"
    /\ idb' = clearAll(idb)
    /\ app' = AppInit
    /\ aw' = AwUnmounted
    /\ wm' = WmMounted
    /\ dbQueue' = Append(Tail(dbQueue), RefreshRequest)
    /\ UNCHANGED <<importer, backup, em, images>>
    /\ hist' = HistStep(hist, AwUnmounted)

(***************************************************************************)
(* The session life cycle: starting, resuming, progressing, closing and    *)
(* finishing workouts, deleting workouts, clearing all data.               *)
(***************************************************************************)
WorkoutA ==
    MkWorkout("w1", "Push",
        << WorkoutExercise("e1", <<RepsSet(10), TimeSet(1)>>, 1, 1),
           WorkoutExercise("e2", <<RepsSet(10)>>, 1, 0) >>)

WorkoutB == MkWorkout("w2", "Plank", << WorkoutExercise("e1", <<TimeSet(1)>>, 1, 1) >>)

StoredExercises == {Exercise("e1", "Push up"), Exercise("e2", "Dip")}

\* The page opens on the workouts view: the manager mounts and loads.
Init ==
    /\ idb = [exercises |-> StoredExercises, workouts |-> {WorkoutA, WorkoutB},
              settings |-> {}, active_session |-> {}]
    /\ dbQueue = <<RefreshRequest>>
    /\ app = AppInit
    /\ aw = AwUnmounted
    /\ wm = WmMounted
    /\ hist = HistInit
    /\ importer = NoImport
    /\ backup = NoBackup
    /\ em = NoManager
    /\ images = NoImages

Next ==
    \/ Tick
    \/ NextSet
    \/ PrevSet
    \/ NextExercise
    \/ PrevExercise
    \/ SkipRest
    \/ ToggleTimer
    \/ CancelFinish
    \/ ConfirmFinish
    \/ Close
    \/ AwInitGotExercises
    \/ AwInitSession
    \/ AwFinishCleared
    \/ DbSaveActiveSession
    \/ WmRefreshed
    \/ \E w \in wm.workouts : SelectWorkout(w)
    \/ \E resume \in BOOLEAN : StartWorkout(resume)
    \/ \E w \in wm.workouts : PromptDelete(w.id)
    \/ CancelDelete
    \/ ConfirmDelete
    \/ WmDeleteGotSession
    \/ WmDeleteCleared
    \/ WmDeleteDeleted
    \/ WmDeleteRefreshed
    \/ OpenSettings
    \/ OpenWorkouts
    \/ ConfirmReset
    \/ SettingsResetDone

Spec == Init /\ [][Next]_vars

(***************************************************************************)
(* Properties of the session life cycle.                                   *)
(***************************************************************************)
\* C1: the active-session store holds at most one record, and its key is
\* 'current', whatever workouts were started, resumed, progressed, closed,
\* finished or deleted and whether all data was cleared.
C1_SingleActiveSession ==
    /\ Cardinality(idb.active_session) <= 1
    /\ \A r \in idb.active_session : r.id = "current"

\* A session that was saved again and again while the runner progressed.
C1_Witness ==
    \E r \in idb.active_session : r.currentExIndex = 1 /\ r.timer > 0

C3_FreshStartAtZero ==
    (aw.mounted /\ ~aw.resume /\ ~aw.isLoading) =>
        /\ hist.savesDone = 0 => idb.active_session = {}
        /\ hist.savesDone = 1 => getActiveSession(idb) = Session(aw.workout.id, 0, 0, 0)

\* C4: once confirmDelete has deleted a workout, no persisted session refers
\* to its id, and a session of another workout is left as it was.
C4_DeleteCleansSession ==
    /\ \A r \in idb.active_session : r.workoutId \notin hist.deletedIds
    /\ hist.del.id # NoId =>
          (hist.del.before.workoutId # hist.del.id => hist.del.after = hist.del.before)

\* The deleted workout had the persisted session.
C4_Witness ==
    /\ hist.del.id # NoId
    /\ hist.del.before.workoutId = hist.del.id
    /\ hist.del.before.timer > 0

(***************************************************************************)
(* Text.  A string is the sequence of its characters, each a one-character *)
(* string; the quotes that are not the double quote are written by their   *)
(* code points.                                                            *)
(***************************************************************************)
Backtick == "U+0060"
Apostrophe == "U+0027"
LeftDoubleQuote == "U+201C"
RightDoubleQuote == "U+201D"
LeftSingleQuote == "U+2018"
RightSingleQuote == "U+2019"
DoubleQuote == "\""
WhiteSpace == {" ", "\n", "\t", "\r"}
LineTerminators == {"\n", "\r"}
UpperCase ==
    <<"A", "B", "C", "D", "E", "F", "G", "H", "I", "J", "K", "L", "M",
      "N", "O", "P", "Q", "R", "S", "T", "U", "V", "W", "X", "Y", "Z">>
LowerCase ==
    <<"a", "b", "c", "d", "e", "f", "g", "h", "i", "j", "k", "l", "m",
      "n", "o", "p", "q", "r", "s", "t", "u", "v", "w", "x", "y", "z">>
Digits == <<"0", "1", "2", "3", "4", "5", "6", "7", "8", "9">>

\* The string p occurs in s at index i (from 1).
At(s, i, p) ==
    /\ i >= 1
    /\ i + Len(p) - 1 <= Len(s)
    /\ \A k \in 1..Len(p) : s[i + k - 1] = p[k]

startsWith(s, p) == At(s, 1, p)
endsWith(s, p) == At(s, Len(s) - Len(p) + 1, p)

\* The first index from i on where p occurs in s, 0 when there is none.
indexOf(s, p, i) ==
    LET hits == {j \in i..(Len(s) - Len(p) + 1) : At(s, j, p)}
    IN  IF hits = {} THEN 0 ELSE CHOOSE j \in hits : \A k \in hits : j <= k

\* The last index where p occurs in s, 0 when there is none.
lastIndexOf(s, p) ==
    LET hits == {j \in 1..(Len(s) - Len(p) + 1) : At(s, j, p)}
    IN  IF hits = {} THEN 0 ELSE CHOOSE j \in hits : \A k \in hits : j >= k

includes(s, p) == indexOf(s, p, 1) # 0

\* The characters of s from lo to hi whose index is not in removed.
RECURSIVE Without(_, _, _, _)
Without(s, removed, lo, hi) ==
    IF lo > hi THEN <<>>
    ELSE IF lo = hi THEN (IF lo \in removed THEN <<>> ELSE <<s[lo]>>)
    ELSE Without(s, removed, lo, (lo + hi) \div 2)
         \o Without(s, removed, (lo + hi) \div 2 + 1, hi)

RECURSIVE trimStart(_)
trimStart(s) == IF s # <<>> /\ Head(s) \in WhiteSpace THEN trimStart(Tail(s)) ELSE s

RECURSIVE trimEnd(_)
trimEnd(s) ==
    IF s # <<>> /\ s[Len(s)] \in WhiteSpace THEN trimEnd(SubSeq(s, 1, Len(s) - 1)) ELSE s

trim(s) == trimEnd(trimStart(s))

LowerOf(c) ==
    IF \E i \in 1..26 : UpperCase[i] = c
    THEN LowerCase[CHOOSE i \in 1..26 : UpperCase[i] = c]
    ELSE c

toLowerCase(s) == [i \in 1..Len(s) |-> LowerOf(s[i])]

\* The index of the first character from i on that is not white space.
RECURSIVE SkipWs(_, _)
SkipWs(s, i) == IF i <= Len(s) /\ s[i] \in WhiteSpace THEN SkipWs(s, i + 1) ELSE i

(***************************************************************************)
(* cleanJSON.                                                              *)
(***************************************************************************)
Fence == <<Backtick, Backtick, Backtick>>

\* The first replace of cleanJSON: a fence (three backticks) at the very
\* start, with the word json when it follows, and a fence at the very end.
StripOuterFences(str) ==
    LET start == IF startsWith(str, Fence)
                 THEN IF At(str, 4, <<"j", "s", "o", "n">>) THEN 7 ELSE 3
                 ELSE 0
        rest == SubSeq(str, start + 1, Len(str))
    IN  IF endsWith(rest, Fence) THEN SubSeq(rest, 1, Len(rest) - 3) ELSE rest

\* The second replace: every fence is removed, left to right.  Of a run of
\* backticks from r to e the first 3 * ((e - r + 1) \div 3) are in a fence.
RemoveFences(s) ==
    LET ticks == {i \in 1..Len(s) : s[i] = Backtick}
        RunStart(i) == CHOOSE r \in 1..i :
                           /\ \A k \in r..i : k \in ticks
                           /\ (r - 1) \notin ticks
        RunEnd(i) == CHOOSE e \in i..Len(s) :
                         /\ \A k \in i..e : k \in ticks
                         /\ (e + 1) \notin ticks
        removed == {i \in ticks : i - RunStart(i) < 3 * ((RunEnd(i) - RunStart(i) + 1) \div 3)}
    IN  Without(s, removed, 1, Len(s))

\* The line comments: from two slashes to the end of the line.
RemoveLineComments(s) ==
    LET starts == {j \in 1..Len(s) : At(s, j, <<"/", "/">>)}
        removed == {i \in 1..Len(s) :
                       \E j \in starts : j <= i /\ \A k \in j..i : s[k] \notin LineTerminators}
    IN  IF starts = {} THEN s ELSE Without(s, removed, 1, Len(s))

\* The block comments: from slash-star to the first star-slash after it.
RECURSIVE RemoveBlockComments(_)
RemoveBlockComments(s) ==
    LET open == indexOf(s, <<"/", "*">>, 1)
        close == IF open = 0 THEN 0 ELSE indexOf(s, <<"*", "/">>, open + 2)
    IN  IF close = 0 THEN s
        ELSE SubSeq(s, 1, open - 1) \o RemoveBlockComments(SubSeq(s, close + 2, Len(s)))

\* The smart double quotes become the double quote, the smart single quotes
\* the apostrophe.
StraightQuote(c) ==
    IF c \in {LeftDoubleQuote, RightDoubleQuote} THEN DoubleQuote
    ELSE IF c \in {LeftSingleQuote, RightSingleQuote} THEN Apostrophe
    ELSE c

ReplaceSmartQuotes(s) == [i \in 1..Len(s) |-> StraightQuote(s[i])]

\* The trailing commas: a comma that only white space separates from a
\* closing bracket or brace is removed.
FixTrailingCommas(s) ==
    LET removed == {i \in 1..Len(s) :
                       /\ s[i] = ","
                       /\ SkipWs(s, i + 1) <= Len(s)
                       /\ s[SkipWs(s, i + 1)] \in {"]", "}"}}
    IN  IF removed = {} THEN s ELSE Without(s, removed, 1, Len(s))

\* cleanJSON without the last replace.
cleanJSONKeepingCommas(str) ==
    ReplaceSmartQuotes(
        RemoveBlockComments(RemoveLineComments(trim(RemoveFences(StripOuterFences(str))))))

cleanJSON(str) ==
    FixTrailingCommas(
        ReplaceSmartQuotes(
            RemoveBlockComments(RemoveLineComments(trim(RemoveFences(StripOuterFences(str)))))))

(***************************************************************************)
(* JavaScript values as JSON.parse builds them.  Every value is a record   *)
(* of the same shape: t is its type, n its number (1 for true), s its      *)
(* characters, a its elements, o its members in the order of the text.     *)
(***************************************************************************)
JValue(t, n, s, a, o) == [t |-> t, n |-> n, s |-> s, a |-> a, o |-> o]
JUndefined == JValue("undefined", 0, <<>>, <<>>, <<>>)
JNull == JValue("null", 0, <<>>, <<>>, <<>>)
JBool(b) == JValue("boolean", IF b THEN 1 ELSE 0, <<>>, <<>>, <<>>)
JNum(n) == JValue("number", n, <<>>, <<>>, <<>>)
JStr(s) == JValue("string", 0, s, <<>>, <<>>)
JArr(a) == JValue("array", 0, <<>>, a, <<>>)
JObj(o) == JValue("object", 0, <<>>, <<>>, o)
Member(k, v) == [k |-> k, v |-> v]

\* Number(x) of a text that is not a number.
NaN == 0 - 2

DigitVal(c) == (CHOOSE k \in 1..10 : Digits[k] = c) - 1

IsDigit(c) == \E k \in 1..10 : Digits[k] = c

\* The number a run of digits denotes.
RECURSIVE DigitsValue(_)
DigitsValue(s) ==
    IF s = <<>> THEN 0
    ELSE 10 * DigitsValue(SubSeq(s, 1, Len(s) - 1)) + DigitVal(s[Len(s)])

\* The decimal digits of an integer, after a minus sign when it is negative.
RECURSIVE NumToString(_)
NumToString(n) ==
    IF n < 0 THEN <<"-">> \o NumToString(0 - n)
    ELSE IF n < 10 THEN <<Digits[n + 1]>>
    ELSE NumToString(n \div 10) \o <<Digits[(n % 10) + 1]>>

\* The index after the run of digits that starts at i.
RECURSIVE DigitsEnd(_, _)
DigitsEnd(s, i) == IF i <= Len(s) /\ IsDigit(s[i]) THEN DigitsEnd(s, i + 1) ELSE i

(***************************************************************************)
(* JSON.parse, by recursive descent over the grammar of JSON: objects,     *)
(* arrays, strings, integers and the three literals.  A parse yields the   *)
(* value and the index after it.  Escape sequences, fractions and          *)
(* exponents are not in the alphabet of the texts explored.                *)
(***************************************************************************)
ParseFail == [ok |-> FALSE, v |-> JUndefined, i |-> 0]
Parsed(v, i) == [ok |-> TRUE, v |-> v, i |-> i]

\* The index of the first double quote from i on, 0 when there is none.
RECURSIVE ClosingQuote(_, _)
ClosingQuote(s, i) ==
    IF i > Len(s) THEN 0
    ELSE IF s[i] = DoubleQuote THEN i
    ELSE ClosingQuote(s, i + 1)

\* A string whose opening quote is before i: up to the closing quote, with
\* no control character inside.
ParseString(s, i) ==
    LET close == ClosingQuote(s, i)
    IN  IF close = 0 \/ \E k \in i..(close - 1) : s[k] \in {"\n", "\t", "\r", "\\"}
        THEN ParseFail
        ELSE Parsed(JStr(SubSeq(s, i, close - 1)), close + 1)

RECURSIVE ParseNumber(_, _)
ParseNumber(s, i) ==
    IF s[i] = "-"
    THEN IF i < Len(s) /\ IsDigit(s[i + 1])
         THEN Parsed(JNum(0 - ParseNumber(s, i + 1).v.n), ParseNumber(s, i + 1).i)
         ELSE ParseFail
    ELSE IF s[i] = "0" THEN Parsed(JNum(0), i + 1)
    ELSE Parsed(JNum(DigitsValue(SubSeq(s, i, DigitsEnd(s, i) - 1))), DigitsEnd(s, i))

RECURSIVE ParseValue(_, _)
RECURSIVE ParseElements(_, _, _)
RECURSIVE ParseMembers(_, _, _)

\* The elements of an array from i on, after those in acc.
ParseElements(s, i, acc) ==
    LET e == ParseValue(s, i)
        j == SkipWs(s, e.i)
    IN  IF ~e.ok \/ j > Len(s) THEN ParseFail
        ELSE IF s[j] = "," THEN ParseElements(s, j + 1, Append(acc, e.v))
        ELSE IF s[j] = "]" THEN Parsed(JArr(Append(acc, e.v)), j + 1)
        ELSE ParseFail

\* The members of an object from i on, after those in acc.
ParseMembers(s, i, acc) ==
    LET q == SkipWs(s, i)
        key == IF q <= Len(s) /\ s[q] = DoubleQuote THEN ParseString(s, q + 1) ELSE ParseFail
        c == IF key.ok THEN SkipWs(s, key.i) ELSE 0
        val == IF key.ok /\ c <= Len(s) /\ s[c] = ":" THEN ParseValue(s, c + 1) ELSE ParseFail
        j == IF val.ok THEN SkipWs(s, val.i) ELSE 0
    IN  IF ~val.ok \/ j > Len(s) THEN ParseFail
        ELSE IF s[j] = "," THEN ParseMembers(s, j + 1, Append(acc, Member(key.v.s, val.v)))
        ELSE IF s[j] = "}" THEN Parsed(JObj(Append(acc, Member(key.v.s, val.v))), j + 1)
        ELSE ParseFail

ParseValue(s, i0) ==
    LET i == SkipWs(s, i0)
    IN  IF i > Len(s) THEN ParseFail
        ELSE IF s[i] = "{"
             THEN IF SkipWs(s, i + 1) <= Len(s) /\ s[SkipWs(s, i + 1)] = "}"
                  THEN Parsed(JObj(<<>>), SkipWs(s, i + 1) + 1)
                  ELSE ParseMembers(s, i + 1, <<>>)
        ELSE IF s[i] = "["
             THEN IF SkipWs(s, i + 1) <= Len(s) /\ s[SkipWs(s, i + 1)] = "]"
                  THEN Parsed(JArr(<<>>), SkipWs(s, i + 1) + 1)
                  ELSE ParseElements(s, i + 1, <<>>)
        ELSE IF s[i] = DoubleQuote THEN ParseString(s, i + 1)
        ELSE IF IsDigit(s[i]) \/ s[i] = "-" THEN ParseNumber(s, i)
        ELSE IF At(s, i, <<"t", "r", "u", "e">>) THEN Parsed(JBool(TRUE), i + 4)
        ELSE IF At(s, i, <<"f", "a", "l", "s", "e">>) THEN Parsed(JBool(FALSE), i + 5)
        ELSE IF At(s, i, <<"n", "u", "l", "l">>) THEN Parsed(JNull, i + 4)
        ELSE ParseFail

\* JSON.parse(text): ok is FALSE where JSON.parse throws a SyntaxError.
JSONparse(text) ==
    LET r == ParseValue(text, 1)
    IN  IF r.ok /\ SkipWs(text, r.i) = Len(text) + 1
        THEN [ok |-> TRUE, v |-> r.v]
        ELSE [ok |-> FALSE, v |-> JUndefined]

(***************************************************************************)
(* JSON.stringify.                                                         *)
(***************************************************************************)
RECURSIVE JSONstringify(_)
RECURSIVE StringifyElements(_)
RECURSIVE StringifyMembers(_)

\* An element that is undefined is written as null.
StringifyElements(a) ==
    IF a = <<>> THEN <<>>
    ELSE (IF Head(a).t = "undefined" THEN JSONstringify(JNull) ELSE JSONstringify(Head(a)))
         \o (IF Len(a) > 1 THEN <<",">> \o StringifyElements(Tail(a)) ELSE <<>>)

\* A member whose value is undefined is left out.
StringifyMembers(o) ==
    LET defined == SelectSeq(o, LAMBDA m : m.v.t # "undefined")
    IN  IF defined = <<>> THEN <<>>
        ELSE <<DoubleQuote>> \o Head(defined).k \o <<DoubleQuote, ":">>
             \o JSONstringify(Head(defined).v)
             \o (IF Len(defined) > 1 THEN <<",">> \o StringifyMembers(Tail(defined)) ELSE <<>>)

JSONstringify(v) ==
    CASE v.t = "string" -> <<DoubleQuote>> \o v.s \o <<DoubleQuote>>
      [] v.t = "number" -> NumToString(v.n)
      [] v.t = "boolean" -> IF v.n = 1 THEN <<"t", "r", "u", "e">> ELSE <<"f", "a", "l", "s", "e">>
      [] v.t = "array" -> <<"[">> \o StringifyElements(v.a) \o <<"]">>
      [] v.t = "object" -> <<"{">> \o StringifyMembers(v.o) \o <<"}">>
      [] OTHER -> <<"n", "u", "l", "l">>

(***************************************************************************)
(* The operations of JavaScript that parseUniversalData applies to the     *)
(* parsed values.                                                          *)
(***************************************************************************)
\* v[k]: the last member of that name, undefined when v has none.
Prop(v, k) ==
    IF v.t = "object" /\ \E i \in 1..Len(v.o) : v.o[i].k = k
    THEN v.o[CHOOSE i \in 1..Len(v.o) :
                 v.o[i].k = k /\ \A j \in (i + 1)..Len(v.o) : v.o[j].k # k].v
    ELSE JUndefined

\* v.k throws a TypeError.
IsNullish(v) == v.t \in {"null", "undefined"}

Truthy(v) ==
    CASE v.t \in {"undefined", "null"} -> FALSE
      [] v.t \in {"boolean", "number"} -> v.n # 0
      [] v.t = "string" -> v.s # <<>>
      [] OTHER -> TRUE

isArray(v) == v.t = "array"

\* String(v)
RECURSIVE ToStr(_)
RECURSIVE Join(_)
Join(a) ==
    IF a = <<>> THEN <<>>
    ELSE (IF IsNullish(Head(a)) THEN <<>> ELSE ToStr(Head(a)))
         \o (IF Len(a) > 1 THEN <<",">> \o Join(Tail(a)) ELSE <<>>)

ToStr(v) ==
    CASE v.t = "string" -> v.s
      [] v.t = "number" -> NumToString(v.n)
      [] v.t = "boolean" -> IF v.n = 1 THEN <<"t", "r", "u", "e">> ELSE <<"f", "a", "l", "s", "e">>
      [] v.t = "null" -> <<"n", "u", "l", "l">>
      [] v.t = "undefined" -> <<"u", "n", "d", "e", "f", "i", "n", "e", "d">>
      [] v.t = "array" -> Join(v.a)
      [] OTHER -> <<"[", "o", "b", "j", "e", "c", "t", " ", "O", "b", "j", "e", "c", "t", "]">>

\* Number(text): a run of digits within white space, after a minus sign or
\* not; the empty text is 0.
RECURSIVE StringToNumber(_)
StringToNumber(s) ==
    IF trim(s) = <<>> THEN 0
    ELSE IF Head(trim(s)) = "-" /\ Len(trim(s)) > 1 /\ IsDigit(trim(s)[2])
    THEN IF StringToNumber(Tail(trim(s))) = NaN THEN NaN
         ELSE 0 - StringToNumber(Tail(trim(s)))
    ELSE IF \A i \in 1..Len(trim(s)) : IsDigit(trim(s)[i]) THEN DigitsValue(trim(s))
    ELSE NaN

\* Number(v)
ToNumber(v) ==
    CASE v.t \in {"number", "boolean"} -> v.n
      [] v.t = "null" -> 0
      [] v.t = "undefined" -> NaN
      [] v.t = "object" -> NaN
      [] OTHER -> StringToNumber(ToStr(v))

\* x || d for a number x.
NumberOr(x, d) == IF x = 0 \/ x = NaN THEN d ELSE x

(***************************************************************************)
(* parseUniversalData.                                                     *)
(***************************************************************************)
\* The property names that parseUniversalData, exportData and importData read
\* and write.
Key ==
    [id |-> <<"i", "d">>,
     exerciseId |-> <<"e", "x", "e", "r", "c", "i", "s", "e", "I", "d">>,
     weight |-> <<"w", "e", "i", "g", "h", "t">>,
     restTime |-> <<"r", "e", "s", "t", "T", "i", "m", "e">>,
     settings |-> <<"s", "e", "t", "t", "i", "n", "g", "s">>,
     theme |-> <<"t", "h", "e", "m", "e">>,
     unit |-> <<"u", "n", "i", "t">>,
     language |-> <<"l", "a", "n", "g", "u", "a", "g", "e">>,
     name |-> <<"n", "a", "m", "e">>,
     exercises |-> <<"e", "x", "e", "r", "c", "i", "s", "e", "s">>,
     workouts |-> <<"w", "o", "r", "k", "o", "u", "t", "s">>,
     muscleGroups |-> <<"m", "u", "s", "c", "l", "e", "G", "r", "o", "u", "p", "s">>,
     imageUrl |-> <<"i", "m", "a", "g", "e", "U", "r", "l">>,
     notes |-> <<"n", "o", "t", "e", "s">>,
     description |-> <<"d", "e", "s", "c", "r", "i", "p", "t", "i", "o", "n">>,
     coverImage |-> <<"c", "o", "v", "e", "r", "I", "m", "a", "g", "e">>,
     sets |-> <<"s", "e", "t", "s">>,
     type |-> <<"t", "y", "p", "e">>,
     value |-> <<"v", "a", "l", "u", "e">>,
     reps |-> <<"r", "e", "p", "s">>,
     restBetweenSets |-> <<"r", "e", "s", "t", "B", "e", "t", "w", "e", "e", "n", "S", "e", "t", "s">>,
     restAfterExercise |-> <<"r", "e", "s", "t", "A", "f", "t", "e", "r", "E", "x", "e", "r", "c", "i", "s", "e">>]

Other == <<"O", "t", "h", "e", "r">>

MUSCLE_GROUPS ==
    { <<"C", "h", "e", "s", "t">>, <<"B", "a", "c", "k">>, <<"L", "e", "g", "s">>,
      <<"S", "h", "o", "u", "l", "d", "e", "r", "s">>, <<"B", "i", "c", "e", "p", "s">>,
      <<"T", "r", "i", "c", "e", "p", "s">>, <<"C", "o", "r", "e">>,
      <<"C", "a", "r", "d", "i", "o">>, <<"F", "u", "l", "l", " ", "B", "o", "d", "y">>,
      Other }

\* crypto.randomUUID(): the n-th id drawn differs from every id drawn before
\* and from every id in the database.
randomUUID(n) == <<"u", "u", "i", "d", "-">> \o NumToString(n)

\* The outcomes of a call: the value returned, or the error thrown.  Of the
\* syntax error the engine's details are left out.
Returned(newExercises, newWorkouts) ==
    [error |-> "", newExercises |-> newExercises, newWorkouts |-> newWorkouts]
Thrown(error) == [error |-> error, newExercises |-> <<>>, newWorkouts |-> <<>>]
SyntaxError == "Invalid generation: syntax error"
NotObjectOrArray == "Invalid generation: Output is not a valid Object or Array."
NoValidWorkouts ==
    "Invalid generation: Workouts found but failed to parse valid exercises within them."
NothingFound == "Invalid generation: No valid exercises or workouts found in JSON."
TypeError == "TypeError"

\* The repair of a text that JSON.parse rejected: the one strategy that the
\* first and the last character of the text select.
CompleteBracket(cleaned) == JSONparse(cleaned \o <<"]">>)
CompleteBrace(cleaned) == JSONparse(cleaned \o <<"}">>)

\* cleaned.match(/(\{[\s\S]*\}|\[[\s\S]*\])/): at the leftmost index where
\* one of them matches, from a brace to the last closing brace, or else from
\* a bracket to the last closing bracket; <<>> when nothing matches.
Match(s) ==
    LET lastBrace == lastIndexOf(s, <<"}">>)
        lastBracket == lastIndexOf(s, <<"]">>)
        from == {i \in 1..Len(s) : \/ s[i] = "{" /\ lastBrace > i
                                   \/ s[i] = "[" /\ lastBracket > i}
        first == CHOOSE i \in from : \A k \in from : i <= k
    IN  IF from = {} THEN <<>>
        ELSE SubSeq(s, first, IF s[first] = "{" /\ lastBrace > first
                              THEN lastBrace ELSE lastBracket)

ExtractFirst(cleaned) ==
    IF Match(cleaned) = <<>>
    THEN [ok |-> FALSE, v |-> JUndefined]
    ELSE JSONparse(Match(cleaned))

Recover(cleaned) ==
    IF startsWith(trim(cleaned), <<"[">>) /\ ~endsWith(trim(cleaned), <<"]">>)
    THEN CompleteBracket(cleaned)
    ELSE IF startsWith(trim(cleaned), <<"{">>) /\ ~endsWith(trim(cleaned), <<"}">>)
    THEN CompleteBrace(cleaned)
    ELSE ExtractFirst(cleaned)

\* raw, or that it could not be had.
ParseOrRecover(cleaned) ==
    IF JSONparse(cleaned).ok THEN JSONparse(cleaned) ELSE Recover(cleaned)

\* The normalised structure: rawExercises and rawWorkouts, or the error.
Normalized(rawExercises, rawWorkouts) ==
    [error |-> "", rawExercises |-> rawExercises, rawWorkouts |-> rawWorkouts]
NotNormalized(error) == [error |-> error, rawExercises |-> JArr(<<>>), rawWorkouts |-> JArr(<<>>)]

NormalizeArray(raw) ==
    LET possibleWorkouts ==
            SelectSeq(raw.a, LAMBDA i : Truthy(Prop(i, Key.name)) /\ isArray(Prop(i, Key.exercises)))
        possibleExercises ==
            SelectSeq(raw.a, LAMBDA i :
                /\ Truthy(Prop(i, Key.name))
                /\ ~Truthy(Prop(i, Key.exercises))
                /\ (Truthy(Prop(i, Key.muscleGroups)) \/ Truthy(Prop(i, Key.imageUrl))))
        wrapper ==
            /\ Len(raw.a) = 1
            /\ (Truthy(Prop(raw.a[1], Key.exercises)) \/ Truthy(Prop(raw.a[1], Key.workouts)))
    IN  IF \E i \in 1..Len(raw.a) : IsNullish(raw.a[i]) THEN NotNormalized(TypeError)
        ELSE Normalized(
                 IF wrapper /\ Truthy(Prop(raw.a[1], Key.exercises))
                 THEN Prop(raw.a[1], Key.exercises) ELSE JArr(possibleExercises),
                 IF wrapper /\ Truthy(Prop(raw.a[1], Key.workouts))
                 THEN Prop(raw.a[1], Key.workouts) ELSE JArr(possibleWorkouts))

NormalizeObject(raw) ==
    Normalized(
        IF isArray(Prop(raw, Key.exercises)) THEN Prop(raw, Key.exercises)
        ELSE IF /\ ~Truthy(Prop(raw, Key.exercises))
                /\ ~Truthy(Prop(raw, Key.workouts))
                /\ Truthy(Prop(raw, Key.muscleGroups))
        THEN JArr(<<raw>>)
        ELSE JArr(<<>>),
        IF isArray(Prop(raw, Key.workouts)) THEN Prop(raw, Key.workouts) ELSE JArr(<<>>))

Normalize(raw) ==
    IF isArray(raw) THEN NormalizeArray(raw)
    ELSE IF raw.t = "object" THEN NormalizeObject(raw)
    ELSE NotNormalized(NotObjectOrArray)

\* Map<string, Exercise> as the set of its entries; of the exercise an entry
\* holds, the readers of the map use the id only.
MapSet(m, k, id) == {e \in m : e.k # k} \cup {[k |-> k, id |-> id]}
MapHas(m, k) == \E e \in m : e.k = k
MapGet(m, k) == (CHOOSE e \in m : e.k = k).id

\* existingExercises.forEach(e => existingExMap.set(...)) from the i-th on.
RECURSIVE ExistingExMap(_, _, _)
ExistingExMap(existingExercises, i, m) ==
    IF i > Len(existingExercises) THEN m
    ELSE ExistingExMap(existingExercises, i + 1,
             MapSet(m, trim(toLowerCase(existingExercises[i].name)), existingExercises[i].id))

\* What the call has built so far: the two arrays, the map, the set, the
\* number of ids drawn, and the error thrown ("" while there is none).  The
\* last three fields are read by the properties only: the name each workout
\* pushed was given in the text, the ids of the exercises the salvage
\* created, and the names of the workout entries the salvage gave up.
Building(existingExercises) ==
    [newExercises |-> <<>>, newWorkouts |-> <<>>,
     existingExMap |-> ExistingExMap(existingExercises, 1, {}),
     processedExNames |-> {}, uuids |-> 0, error |-> "",
     requested |-> <<>>, salvaged |-> {}, dropped |-> <<>>]

\* The duplicate check on names as they are, neither trimmed nor lower-cased.
IsKnownAsWritten(c, item) ==
    \/ MapHas(c.existingExMap, ToStr(Prop(item, Key.name)))
    \/ ToStr(Prop(item, Key.name)) \in c.processedExNames

\* The duplicate check of createExercise.
IsKnown(c, item) ==
    \/ MapHas(c.existingExMap, toLowerCase(trim(ToStr(Prop(item, Key.name)))))
    \/ toLowerCase(trim(ToStr(Prop(item, Key.name)))) \in c.processedExNames

\* The exercise createExercise(item) builds.
NewExercise(item, id) ==
    LET given == Prop(item, Key.muscleGroups)
        muscles == IF isArray(given)
                   THEN SelectSeq(given.a, LAMBDA m : m.t = "string" /\ m.s \in MUSCLE_GROUPS)
                   ELSE <<>>
    IN  [id |-> id,
         name |-> trim(ToStr(Prop(item, Key.name))),
         muscleGroups |-> IF Len(muscles) > 0
                          THEN [i \in 1..Len(muscles) |-> muscles[i].s]
                          ELSE <<Other>>,
         imageUrl |-> IF Prop(item, Key.imageUrl).t = "string"
                      THEN Prop(item, Key.imageUrl) ELSE JUndefined,
         notes |-> IF Prop(item, Key.notes).t = "string" THEN Prop(item, Key.notes) ELSE JUndefined]

\* createExercise(item): whether an exercise is returned (null otherwise),
\* the exercise, and what has been built after the call.
createExercise(item, c) ==
    IF \/ ~Truthy(Prop(item, Key.name))
       \/ Prop(item, Key.name).t \notin {"string", "number"}
       \/ IsKnown(c, item)
    THEN [created |-> FALSE, ex |-> NewExercise(item, <<>>), c |-> c]
    ELSE LET ex == NewExercise(item, randomUUID(c.uuids))
         IN  [created |-> TRUE, ex |-> ex,
              c |-> [c EXCEPT !.processedExNames = @ \cup {toLowerCase(ex.name)},
                              !.existingExMap = MapSet(@, toLowerCase(ex.name), ex.id),
                              !.uuids = @ + 1]]

\* rawExercises.forEach(item => ...) from the i-th item on.
RECURSIVE ProcessExercises(_, _, _)
ProcessExercises(items, i, c) ==
    IF i > Len(items) \/ c.error # "" THEN c
    ELSE IF IsNullish(items[i]) THEN [c EXCEPT !.error = TypeError]
    ELSE LET r == createExercise(items[i], c)
         IN  ProcessExercises(items, i + 1,
                 IF r.created THEN [r.c EXCEPT !.newExercises = Append(@, r.ex)] ELSE r.c)

\* isTaken(n) that looks at the workouts of the database only.
isTakenInDatabase(n, existingWorkouts, newWorkouts) ==
    \E i \in 1..Len(existingWorkouts) : toLowerCase(existingWorkouts[i].name) = toLowerCase(n)

\* isTaken(n)
isTaken(n, existingWorkouts, newWorkouts) ==
    \/ \E i \in 1..Len(existingWorkouts) :
           toLowerCase(existingWorkouts[i].name) = toLowerCase(n)
    \/ \E i \in 1..Len(newWorkouts) : toLowerCase(newWorkouts[i].name) = toLowerCase(n)

Suffixed(name, counter) == name \o <<" ">> \o NumToString(counter)

\* while (isTaken(finalName + ' ' + counter)) counter++
RECURSIVE FreeCounter(_, _, _, _)
FreeCounter(name, counter, existingWorkouts, newWorkouts) ==
    IF isTaken(Suffixed(name, counter), existingWorkouts, newWorkouts)
    THEN FreeCounter(name, counter + 1, existingWorkouts, newWorkouts)
    ELSE counter

FinalName(name, existingWorkouts, newWorkouts) ==
    IF isTaken(name, existingWorkouts, newWorkouts)
    THEN Suffixed(name, FreeCounter(name, 2, existingWorkouts, newWorkouts))
    ELSE name

\* The type and the value of the sets of a workout entry.
SetType(exItem) ==
    IF Prop(exItem, Key.type) = JStr(<<"t", "i", "m", "e">>) THEN "time"
    ELSE IF Prop(exItem, Key.type) = JStr(Key.reps) THEN "reps"
    ELSE IF /\ Prop(exItem, Key.reps).t = "string"
            /\ \/ includes(Prop(exItem, Key.reps).s, <<"s">>)
               \/ includes(Prop(exItem, Key.reps).s, <<"m", "i", "n">>)
    THEN "time"
    ELSE "reps"

\* parseInt(text.replace(/\D/g, ''))
ParseIntOfDigits(s) ==
    IF SelectSeq(s, IsDigit) = <<>> THEN NaN ELSE DigitsValue(SelectSeq(s, IsDigit))

SetValue(exItem) ==
    IF Prop(exItem, Key.value).t = "number" THEN Prop(exItem, Key.value).n
    ELSE IF Prop(exItem, Key.reps).t = "number" THEN Prop(exItem, Key.reps).n
    ELSE IF Prop(exItem, Key.reps).t = "string"
    THEN NumberOr(ParseIntOfDigits(Prop(exItem, Key.reps).s), 10)
    ELSE 10

SetCount(exItem) == NumberOr(ToNumber(Prop(exItem, Key.sets)), 3)

\* The length of Array.from({length: setCount}): no element for a length
\* below zero.
SetsLength(exItem) == IF SetCount(exItem) < 0 THEN 0 ELSE SetCount(exItem)

\* The entry pushed to workoutExercises; its sets draw their ids first.
NewWorkoutExercise(exItem, exerciseId, uuids) ==
    [id |-> randomUUID(uuids + SetsLength(exItem)),
     exerciseId |-> exerciseId,
     sets |-> [k \in 1..SetsLength(exItem) |->
                  [id |-> randomUUID(uuids + k - 1), type |-> SetType(exItem),
                   value |-> SetValue(exItem), weight |-> 0]],
     restTime |-> NumberOr(ToNumber(Prop(exItem, Key.restBetweenSets)), 60),
     restAfterExercise |-> NumberOr(ToNumber(Prop(exItem, Key.restAfterExercise)), 60)]

\* A salvage that hands createExercise an item without a name.
SalvageItemUnnamed(exName) == JObj(<<Member(Key.muscleGroups, JArr(<<JStr(Other)>>))>>)

\* createExercise({ name: exName, muscleGroups: ['Other'] })
SalvageItem(exName) ==
    JObj(<<Member(Key.name, JStr(exName)), Member(Key.muscleGroups, JArr(<<JStr(Other)>>))>>)

\* workoutExercises.push(...) for an entry whose exercise is exerciseId; b
\* holds the workoutExercises of the workout at hand, c what the call has
\* built.
PushEntry(exItem, b, c, exerciseId) ==
    [c |-> [c EXCEPT !.uuids = @ + SetsLength(exItem) + 1],
     workoutExercises |->
         Append(b.workoutExercises, NewWorkoutExercise(exItem, exerciseId, c.uuids))]

\* An entry of an unknown name, once createExercise has answered: the new
\* exercise is pushed and registered, or the entry is left out.
SalvageEntry(exItem, b, exName, salvage) ==
    IF ~salvage.created THEN [b EXCEPT !.c.dropped = Append(@, exName)]
    ELSE PushEntry(exItem, b,
                   [salvage.c EXCEPT
                       !.newExercises = Append(@, salvage.ex),
                       !.existingExMap = MapSet(@, toLowerCase(salvage.ex.name), salvage.ex.id),
                       !.salvaged = @ \cup {salvage.ex.id}],
                   salvage.ex.id)

\* An entry of item.exercises whose trimmed name is exName.
NamedEntry(exItem, b, exName) ==
    IF MapHas(b.c.existingExMap, toLowerCase(exName))
    THEN PushEntry(exItem, b, b.c, MapGet(b.c.existingExMap, toLowerCase(exName)))
    ELSE SalvageEntry(exItem, b, exName, createExercise(SalvageItem(exName), b.c))

\* One entry of item.exercises.
ProcessWorkoutExercise(exItem, b) ==
    IF IsNullish(exItem) THEN [b EXCEPT !.c.error = TypeError]
    ELSE IF ~Truthy(Prop(exItem, Key.name)) THEN b
    ELSE NamedEntry(exItem, b, trim(ToStr(Prop(exItem, Key.name))))

\* item.exercises.forEach(exItem => ...) from the i-th entry on.
RECURSIVE ProcessWorkoutExercises(_, _, _)
ProcessWorkoutExercises(exItems, i, b) ==
    IF i > Len(exItems) \/ b.c.error # "" THEN b
    ELSE ProcessWorkoutExercises(exItems, i + 1, ProcessWorkoutExercise(exItems[i], b))

\* The workout of an item, pushed when it has got entries; b is what the
\* entries of the item have built.
PushWorkout(item, finalName, b) ==
    IF Len(b.workoutExercises) > 0 /\ b.c.error = ""
    THEN [b.c EXCEPT
             !.newWorkouts =
                 Append(@, [id |-> randomUUID(b.c.uuids),
                            name |-> finalName,
                            description |-> IF Prop(item, Key.description).t = "string"
                                            THEN Prop(item, Key.description).s ELSE <<>>,
                            coverImage |-> IF Prop(item, Key.coverImage).t = "string"
                                           THEN Prop(item, Key.coverImage).s ELSE <<>>,
                            exercises |-> b.workoutExercises]),
             !.uuids = @ + 1,
             !.requested = Append(@, trim(Prop(item, Key.name).s))]
    ELSE b.c

\* One item of rawWorkouts.
ProcessWorkout(item, c, existingWorkouts) ==
    IF IsNullish(item) THEN [c EXCEPT !.error = TypeError]
    ELSE IF ~Truthy(Prop(item, Key.name)) \/ Prop(item, Key.name).t # "string" THEN c
    ELSE PushWorkout(item,
                     FinalName(trim(Prop(item, Key.name).s), existingWorkouts, c.newWorkouts),
                     IF isArray(Prop(item, Key.exercises))
                     THEN ProcessWorkoutExercises(Prop(item, Key.exercises).a, 1,
                                                  [c |-> c, workoutExercises |-> <<>>])
                     ELSE [c |-> c, workoutExercises |-> <<>>])

\* rawWorkouts.forEach(item => ...) from the i-th item on.
RECURSIVE ProcessWorkouts(_, _, _, _)
ProcessWorkouts(items, i, c, existingWorkouts) ==
    IF i > Len(items) \/ c.error # "" THEN c
    ELSE ProcessWorkouts(items, i + 1, ProcessWorkout(items[i], c, existingWorkouts),
                         existingWorkouts)

\* What a call builds from the normalised structure; forEach of a value that
\* is no array is a TypeError.
Build(norm, existingExercises, existingWorkouts) ==
    IF ~isArray(norm.rawExercises) \/ ~isArray(norm.rawWorkouts)
    THEN [Building(existingExercises) EXCEPT !.error = TypeError]
    ELSE ProcessWorkouts(norm.rawWorkouts.a, 1,
             ProcessExercises(norm.rawExercises.a, 1, Building(existingExercises)),
             existingWorkouts)

\* The final checks: nothing built is an error, unless exercises were given
\* and all of them were known already.
FinalChecks(c, norm) ==
    IF c.error = "" /\ Len(c.newExercises) = 0 /\ Len(c.newWorkouts) = 0
    THEN IF Len(norm.rawWorkouts.a) > 0 THEN [c EXCEPT !.error = NoValidWorkouts]
         ELSE IF Len(norm.rawExercises.a) > 0 THEN c
         ELSE [c EXCEPT !.error = NothingFound]
    ELSE c

\* What the call has built from the normalised structure, or its error.
BuiltFrom(norm, existingExercises, existingWorkouts) ==
    IF norm.error # "" THEN [Building(existingExercises) EXCEPT !.error = norm.error]
    ELSE FinalChecks(Build(norm, existingExercises, existingWorkouts), norm)

\* What the call has built from raw, or that raw could not be had.
BuiltOf(raw, existingExercises, existingWorkouts) ==
    IF ~raw.ok THEN [Building(existingExercises) EXCEPT !.error = SyntaxError]
    ELSE BuiltFrom(Normalize(raw.v), existingExercises, existingWorkouts)

\* What the call has built when it returns or throws.
Built(jsonString, existingExercises, existingWorkouts) ==
    BuiltOf(ParseOrRecover(cleanJSON(jsonString)), existingExercises, existingWorkouts)

\* What the caller gets: the two arrays, or the error.
Outcome(c) == IF c.error # "" THEN Thrown(c.error) ELSE Returned(c.newExercises, c.newWorkouts)

parseUniversalData(jsonString, existingExercises, existingWorkouts) ==
    Outcome(Built(jsonString, existingExercises, existingWorkouts))

(***************************************************************************)
(* The texts given to parseUniversalData.  A document is written from      *)
(* exercise items, workout items and their entries; a text is a document   *)
(* as JSON.stringify writes it, or a variant of it.                        *)
(***************************************************************************)
\* The most items (exercise items, workout items, workout entries) of a
\* document given as it is, and of a document given in its variants.
MaxItems == 4
MaxVariedItems == 2
\* The most characters a text is cut short by.
MaxCut == 3

ExerciseNames == {<<"A">>, <<"a", " ">>, <<" ">>}
EntryNames == {<<"a", " ">>, <<" ">>, <<"B">>}
WorkoutNames == {<<"W">>, <<"w">>}

ExerciseItem(name) ==
    JObj(<<Member(Key.name, JStr(name)),
           Member(Key.muscleGroups, JArr(<<JStr(<<"C", "h", "e", "s", "t">>)>>))>>)
LinkedExerciseItem(name) ==
    JObj(<<Member(Key.name, JStr(name)), Member(Key.imageUrl, JStr(<<"/", "/", "x">>))>>)
EntryItem(name) == JObj(<<Member(Key.name, JStr(name))>>)
WorkoutItem(name, entries) ==
    JObj(<<Member(Key.name, JStr(name)), Member(Key.exercises, JArr(entries))>>)
Document(exerciseItems, workoutItems) ==
    JObj(<<Member(Key.exercises, JArr(exerciseItems)), Member(Key.workouts, JArr(workoutItems))>>)

SeqsOf(S, n) == [1..n -> S]

\* The workout items of n items: the workout and its n - 1 entries.
WorkoutItems(n) ==
    {WorkoutItem(name, [i \in 1..(n - 1) |-> EntryItem(names[i])]) :
        name \in WorkoutNames, names \in SeqsOf(EntryNames, n - 1)}

\* The lists of workout items of n items in all.
RECURSIVE WorkoutLists(_)
WorkoutLists(n) ==
    IF n = 0 THEN {<<>>}
    ELSE UNION {{<<w>> \o rest : w \in WorkoutItems(k), rest \in WorkoutLists(n - k)} :
                   k \in 1..n}

\* The documents of at most n items.
DocumentsOf(n) ==
    UNION {{Document([i \in 1..e |-> ExerciseItem(names[i])], workoutItems) :
               names \in SeqsOf(ExerciseNames, e), workoutItems \in WorkoutLists(w)} :
              <<e, w>> \in {p \in (0..n) \X (0..n) : p[1] + p[2] <= n}}

\* What the database holds when the import dialog opens.
StoredWorkout(id, name) == [id |-> id, name |-> name, exercises |-> <<>>]
ExistingExerciseLists == {<<>>, <<Exercise(<<"e", "1">>, <<"A">>)>>}
ExistingWorkoutLists ==
    {<<>>,
     <<StoredWorkout(<<"w", "1">>, <<"W">>)>>,
     <<StoredWorkout(<<"w", "1">>, <<"W">>), StoredWorkout(<<"w", "2">>, <<"w", " ", "2">>)>>}

\* The variants of a text.
Fenced(text, word) == Fence \o word \o <<"\n">> \o text \o <<"\n">> \o Fence

\* The double quotes of a text become smart quotes, opening and closing in turn.
SmartQuoted(text) ==
    [i \in 1..Len(text) |->
        IF text[i] # DoubleQuote THEN text[i]
        ELSE IF Cardinality({j \in 1..(i - 1) : text[j] = DoubleQuote}) % 2 = 0
        THEN LeftDoubleQuote
        ELSE RightDoubleQuote]

\* A comma before the closing bracket or brace at index i.
WithTrailingComma(text, i) == SubSeq(text, 1, i - 1) \o <<",">> \o SubSeq(text, i, Len(text))

Closers(text) == {i \in 1..Len(text) : text[i] \in {"]", "}"}}

Chatter == <<"O", "k", ".">>

Variants(text) ==
    {[variant |-> "fence", text |-> Fenced(text, <<"j", "s", "o", "n">>)],
     [variant |-> "fence", text |-> Fenced(text, <<>>)],
     [variant |-> "smart quotes", text |-> SmartQuoted(text)],
     [variant |-> "chatter", text |-> Chatter \o <<" ">> \o text],
     [variant |-> "chatter", text |-> text \o <<" ">> \o Chatter],
     [variant |-> "chatter", text |-> Chatter \o <<" ">> \o text \o <<" ">> \o Chatter]}
    \cup {[variant |-> "trailing comma", text |-> WithTrailingComma(text, i)] : i \in Closers(text)}
    \cup {[variant |-> "cut", text |-> SubSeq(text, 1, Len(text) - n)] : n \in 1..MaxCut}

\* The import dialog with its text typed in; document and variant say how
\* the text was written and are read by the properties only.
ImportOpen(document, variant, text, existingExercises, existingWorkouts) ==
    [state |-> "open", document |-> document, variant |-> variant, jsonString |-> text,
     existingExercises |-> existingExercises, existingWorkouts |-> existingWorkouts,
     result |-> Returned(<<>>, <<>>), built |-> Building(<<>>)]

Inputs ==
    {ImportOpen(JSONstringify(d), "none", JSONstringify(d), ee, ew) :
        d \in DocumentsOf(MaxItems), ee \in ExistingExerciseLists, ew \in ExistingWorkoutLists}
    \cup UNION {{ImportOpen(JSONstringify(d), v.variant, v.text,
                            <<>>, <<StoredWorkout(<<"w", "1">>, <<"W">>)>>) :
                    v \in Variants(JSONstringify(d))} :
                d \in DocumentsOf(MaxVariedItems)
                      \cup {Document(<<LinkedExerciseItem(<<"A">>)>>, <<>>)}}

\* handleMassImport's call of parseUniversalData.
ParseUniversalData ==
    /\ importer.state = "open"
    /\ LET c == Built(importer.jsonString, importer.existingExercises,
                      importer.existingWorkouts)
       IN  importer' = [importer EXCEPT !.state = "done", !.result = Outcome(c), !.built = c]
    /\ UNCHANGED <<idb, dbQueue, app, aw, wm, hist, backup, em, images>>

InitParse ==
    /\ idb = [exercises |-> {}, workouts |-> {}, settings |-> {}, active_session |-> {}]
    /\ dbQueue = <<>>
    /\ app = AppInit
    /\ aw = AwUnmounted
    /\ wm = WmMounted
    /\ hist = HistInit
    /\ importer \in Inputs
    /\ backup = NoBackup
    /\ em = NoManager
    /\ images = NoImages

NextParse == ParseUniversalData

SpecParse == InitParse /\ [][NextParse]_vars

(***************************************************************************)
(* The backup of the settings screen: exportData writes the three stores   *)
(* to a JSON text, importData reads such a text and puts its records.      *)
(***************************************************************************)
AppSettingsKey == <<"a", "p", "p", "-", "s", "e", "t", "t", "i", "n", "g", "s">>

DEFAULT_SETTINGS ==
    [theme |-> <<"d", "a", "r", "k">>, unit |-> <<"k", "g">>, language |-> <<"e", "n">>]

getSettings(d) == Get(d.settings, AppSettingsKey, DEFAULT_SETTINGS)

\* The records of a set as an array (getAll, map); what reads the arrays of
\* a backup puts every element, in whatever order they come.
ArrayOf(S) == CHOOSE a \in [1..Cardinality(S) -> S] : {a[i] : i \in 1..Cardinality(S)} = S

\* A number that may be missing, as a property value.
OptionalNumber(n) == IF n = Undefined THEN JUndefined ELSE JNum(n)
NumberOrMissing(v) == IF v.t = "number" THEN v.n ELSE Undefined

\* The stored objects as JavaScript values, and back.
ExerciseValue(e) == JObj(<<Member(Key.id, JStr(e.id)), Member(Key.name, JStr(e.name))>>)
ExerciseOf(v) == Exercise(Prop(v, Key.id).s, Prop(v, Key.name).s)

SetValueOf(s) ==
    JObj(<<Member(Key.type, JStr(IF s.type = "time" THEN <<"t", "i", "m", "e">> ELSE Key.reps)),
           Member(Key.value, JNum(s.value)),
           Member(Key.weight, JNum(s.weight))>>)
SetOf(v) ==
    [type |-> IF Prop(v, Key.type).s = <<"t", "i", "m", "e">> THEN "time" ELSE "reps",
     value |-> Prop(v, Key.value).n,
     weight |-> Prop(v, Key.weight).n]

WorkoutExerciseValue(e) ==
    JObj(<<Member(Key.exerciseId, JStr(e.exerciseId)),
           Member(Key.sets, JArr([i \in 1..Len(e.sets) |-> SetValueOf(e.sets[i])])),
           Member(Key.restTime, OptionalNumber(e.restTime)),
           Member(Key.restAfterExercise, OptionalNumber(e.restAfterExercise))>>)
WorkoutExerciseOf(v) ==
    WorkoutExercise(Prop(v, Key.exerciseId).s,
                    [i \in 1..Len(Prop(v, Key.sets).a) |-> SetOf(Prop(v, Key.sets).a[i])],
                    NumberOrMissing(Prop(v, Key.restTime)),
                    NumberOrMissing(Prop(v, Key.restAfterExercise)))

WorkoutValue(w) ==
    JObj(<<Member(Key.id, JStr(w.id)),
           Member(Key.name, JStr(w.name)),
           Member(Key.exercises,
                  JArr([i \in 1..Len(w.exercises) |-> WorkoutExerciseValue(w.exercises[i])]))>>)
WorkoutOf(v) ==
    MkWorkout(Prop(v, Key.id).s, Prop(v, Key.name).s,
              [i \in 1..Len(Prop(v, Key.exercises).a) |->
                  WorkoutExerciseOf(Prop(v, Key.exercises).a[i])])

\* The settings object; DEFAULT_SETTINGS has no id.
SettingsValue(s) ==
    JObj(<<Member(Key.id, IF "id" \in DOMAIN s THEN JStr(s.id) ELSE JUndefined),
           Member(Key.theme, JStr(s.theme)),
           Member(Key.unit, JStr(s.unit)),
           Member(Key.language, JStr(s.language))>>)

\* { ...data.settings, id: 'app-settings' }
SettingsOf(v) ==
    [id |-> AppSettingsKey, theme |-> Prop(v, Key.theme).s, unit |-> Prop(v, Key.unit).s,
     language |-> Prop(v, Key.language).s]

exportData(d) ==
    JSONstringify(JObj(<<
        Member(Key.exercises, JArr(ArrayOf({ExerciseValue(e) : e \in getExercises(d)}))),
        Member(Key.workouts, JArr(ArrayOf({WorkoutValue(w) : w \in getWorkouts(d)}))),
        Member(Key.settings, SettingsValue(getSettings(d)))>>))

\* put(x) throws a DataError when x has no valid key at the key path id.
HasKey(v) == Prop(v, Key.id).t \in {"string", "number"}

\* array.forEach(x => store.put(x)) from the i-th element on: whether it
\* returns, and the store with the puts made.
RECURSIVE PutAll(_, _, _, _)
PutAll(store, values, records, i) ==
    IF i > Len(values) THEN [ok |-> TRUE, store |-> store]
    ELSE IF ~HasKey(values[i]) THEN [ok |-> FALSE, store |-> store]
    ELSE PutAll(Put(store, records[i]), values, records, i + 1)

\* if (data.settings) store.put({ ...data.settings, id: 'app-settings' })
ImportSettings(d, settings) ==
    [ok |-> TRUE,
     d |-> IF Truthy(settings) THEN [d EXCEPT !.settings = Put(@, SettingsOf(settings))] ELSE d]

\* What follows the puts of the workouts.  The transaction is not aborted
\* when forEach throws: the puts made before are committed.
AfterWorkouts(d, put, settings) ==
    IF put.ok THEN ImportSettings([d EXCEPT !.workouts = put.store], settings)
    ELSE [ok |-> FALSE, d |-> [d EXCEPT !.workouts = put.store]]

\* if (data.workouts) data.workouts.forEach(w => store.put(w)), and on;
\* forEach of a value that is no array throws, after the puts made before.
ImportWorkouts(d, workouts, settings) ==
    IF ~Truthy(workouts) THEN ImportSettings(d, settings)
    ELSE IF ~isArray(workouts) THEN [ok |-> FALSE, d |-> d]
    ELSE AfterWorkouts(d,
                       PutAll(d.workouts, workouts.a,
                              [i \in 1..Len(workouts.a) |-> WorkoutOf(workouts.a[i])], 1),
                       settings)

\* What follows the puts of the exercises.
AfterExercises(d, put, workouts, settings) ==
    IF put.ok THEN ImportWorkouts([d EXCEPT !.exercises = put.store], workouts, settings)
    ELSE [ok |-> FALSE, d |-> [d EXCEPT !.exercises = put.store]]

\* if (data.exercises) data.exercises.forEach(e => store.put(e)), and on.
ImportExercises(d, exercises, workouts, settings) ==
    IF ~Truthy(exercises) THEN ImportWorkouts(d, workouts, settings)
    ELSE IF ~isArray(exercises) THEN [ok |-> FALSE, d |-> d]
    ELSE AfterExercises(d,
                        PutAll(d.exercises, exercises.a,
                               [i \in 1..Len(exercises.a) |-> ExerciseOf(exercises.a[i])], 1),
                        workouts, settings)

\* What follows JSON.parse; a text that it rejects changes nothing.
ImportParsed(d, data) ==
    IF ~data.ok \/ IsNullish(data.v) THEN [ok |-> FALSE, d |-> d]
    ELSE ImportExercises(d, Prop(data.v, Key.exercises), Prop(data.v, Key.workouts),
                         Prop(data.v, Key.settings))

\* importData(jsonString): whether it resolves, and the database after it.
importData(d, jsonString) == ImportParsed(d, JSONparse(jsonString))

\* The settings screen with no request pending.
SettingsIdle == app.view = "settings" /\ dbQueue = <<>>

\* handleExport, up to its await.
Export ==
    /\ SettingsIdle
    /\ dbQueue' = Append(dbQueue, Req("exportData", NoSession, NoId, "settings.handleExport"))
    /\ UNCHANGED <<idb, app, aw, wm, hist, importer, backup, em, images>>

\* handleExport after the await: the text is downloaded as a file.  before
\* is what the stores held when they were read; the properties read it.
SettingsExported ==
    /\ dbQueue # <<>>
    /\ Head(dbQueue).then = "settings.handleExport"
    /\ dbQueue' = Tail(dbQueue)
    /\ backup' = [state |-> "exported", file |-> exportData(idb), before |-> idb,
                  into |-> idb, after |-> idb, ok |-> TRUE]
    /\ UNCHANGED <<idb, app, aw, wm, hist, importer, em, images>>

\* handleImport with the file exported before, up to await db.importData.
Import ==
    /\ SettingsIdle
    /\ backup.state = "exported"
    /\ dbQueue' = Append(dbQueue, Req("importData", NoSession, NoId, "settings.handleImport"))
    /\ UNCHANGED <<idb, app, aw, wm, hist, importer, backup, em, images>>

\* Files that the application did not write: a text that is no JSON, an
\* exercises or a workouts field that is no array, an exercise without an
\* id, and a well-formed backup.
ForeignExercise == ExerciseValue(Exercise(<<"e", "2">>, <<"B">>))
ForeignWorkout ==
    WorkoutValue(MkWorkout(<<"w", "2">>, <<"V">>,
                           <<WorkoutExercise(<<"e", "2">>, <<RepsSet(8)>>, 45, 45)>>))
ForeignFiles ==
    {<<"{">>}
    \cup {JSONstringify(JObj(members)) : members \in {
             <<Member(Key.exercises, JArr(<<ForeignExercise>>)), Member(Key.workouts, JNum(5))>>,
             <<Member(Key.exercises, JNum(5)), Member(Key.workouts, JArr(<<ForeignWorkout>>))>>,
             <<Member(Key.exercises,
                      JArr(<<ForeignExercise, JObj(<<Member(Key.name, JStr(<<"C">>))>>)>>))>>,
             <<Member(Key.exercises, JArr(<<ForeignExercise>>)),
               Member(Key.workouts, JArr(<<ForeignWorkout>>))>>}}

\* handleImport with a file of another origin, up to await db.importData.
ImportForeign ==
    /\ SettingsIdle
    /\ \E text \in ForeignFiles :
           backup' = [state |-> "picked", file |-> text, before |-> idb, into |-> idb,
                      after |-> idb, ok |-> TRUE]
    /\ dbQueue' = Append(dbQueue, Req("importData", NoSession, NoId, "settings.handleImport"))
    /\ UNCHANGED <<idb, app, aw, wm, hist, importer, em, images>>

\* The page after handleImport: closing the alert of a success reloads it,
\* the alert of a failure leaves the settings screen as it is.
AfterImport(ok) ==
    IF ok
    THEN /\ app' = AppInit
         /\ wm' = WmMounted
         /\ dbQueue' = Append(Tail(dbQueue), RefreshRequest)
    ELSE /\ dbQueue' = Tail(dbQueue)
         /\ UNCHANGED <<app, wm>>

\* handleImport after the await, and closeAlert.  into is what the stores
\* held when the import began, after what they held when it ended, ok
\* whether importData resolved.
SettingsImported ==
    /\ dbQueue # <<>>
    /\ Head(dbQueue).then = "settings.handleImport"
    /\ idb' = importData(idb, backup.file).d
    /\ backup' = [backup EXCEPT
                      !.state = IF @ = "exported" THEN "imported" ELSE "imported other",
                      !.into = idb, !.after = idb',
                      !.ok = importData(idb, backup.file).ok]
    /\ AfterImport(importData(idb, backup.file).ok)
    /\ UNCHANGED <<aw, hist, importer, em, images>>

\* What the database may hold when the page opens.
StoredSettings ==
    [id |-> AppSettingsKey, theme |-> <<"l", "i", "g", "h", "t">>, unit |-> <<"l", "b", "s">>,
     language |-> <<"i", "t">>]
StoredRests == {0, 45}
StoredRestsAfter == {Undefined, 0, 45}
StoredWorkouts ==
    {MkWorkout(<<"w", "1">>, <<"W">>,
               <<WorkoutExercise(<<"e", "1">>, <<RepsSet(10), TimeSet(30)>>, rest, after)>>) :
        rest \in StoredRests, after \in StoredRestsAfter}

InitBackup ==
    /\ idb \in {[exercises |-> E, workouts |-> W, settings |-> S, active_session |-> {}] :
                   E \in SUBSET {Exercise(<<"e", "1">>, <<"A">>)},
                   W \in {{}} \cup {{w} : w \in StoredWorkouts},
                   S \in {{}, {StoredSettings}}}
    /\ dbQueue = <<RefreshRequest>>
    /\ app = AppInit
    /\ aw = AwUnmounted
    /\ wm = WmMounted
    /\ hist = HistInit
    /\ importer = NoImport
    /\ backup = NoBackup
    /\ em = NoManager
    /\ images = NoImages

NextBackup ==
    \/ WmRefreshed
    \/ OpenSettings
    \/ OpenWorkouts
    \/ Export
    \/ SettingsExported
    \/ ConfirmReset
    \/ SettingsResetDone
    \/ Import
    \/ ImportForeign
    \/ SettingsImported

SpecBackup == InitBackup /\ [][NextBackup]_vars

(***************************************************************************)
(* Properties of the backup (SpecBackup).                                  *)
(***************************************************************************)
Emptied(d) == d.exercises = {} /\ d.workouts = {} /\ d.settings = {}

\* C10: once the exported text has been imported into an emptied database,
\* the stores of exercises, workouts and settings hold what they held when
\* they were exported.
C10_ImportOfExportRestores ==
    (backup.state = "imported" /\ Emptied(backup.into)) =>
        /\ backup.after.exercises = backup.before.exercises
        /\ backup.after.workouts = backup.before.workouts
        /\ backup.after.settings = backup.before.settings

\* C11: when importData fails, the stores of exercises, workouts and
\* settings hold what they held when the import began.
C11_FailedImportChangesNothing ==
    (backup.state \in {"imported", "imported other"} /\ ~backup.ok) =>
        /\ backup.after.exercises = backup.into.exercises
        /\ backup.after.workouts = backup.into.workouts
        /\ backup.after.settings = backup.into.settings

(***************************************************************************)
(* Properties of parseUniversalData (SpecParse).                           *)
(***************************************************************************)
Imported == importer.state = "done"
NormName(name) == toLowerCase(trim(name))

\* The names the text gives: of the exercise items and of the workout entries.
NamesGiven ==
    LET norm == Normalize(ParseOrRecover(cleanJSON(importer.jsonString)).v)
        entries(w) == IF isArray(Prop(w, Key.exercises)) THEN Prop(w, Key.exercises).a ELSE <<>>
    IN  {trim(ToStr(Prop(norm.rawExercises.a[i], Key.name))) : i \in 1..Len(norm.rawExercises.a)}
        \cup UNION {{trim(ToStr(Prop(entries(norm.rawWorkouts.a[w])[i], Key.name))) :
                        i \in 1..Len(entries(norm.rawWorkouts.a[w]))} :
                    w \in 1..Len(norm.rawWorkouts.a)}

\* C5: no exercise that parseUniversalData returns has the trimmed,
\* lower-cased name of an existing exercise or of another exercise of the same
\* call; a duplicate is skipped, not renamed: every name returned is a name
\* the text gives, trimmed.
C5_NoDuplicateExercise ==
    Imported =>
        LET new == importer.result.newExercises
            old == importer.existingExercises
        IN  /\ \A i \in 1..Len(new) : \A e \in 1..Len(old) :
                   NormName(new[i].name) # NormName(old[e].name)
            /\ \A i, j \in 1..Len(new) : i # j => NormName(new[i].name) # NormName(new[j].name)
            /\ \A i \in 1..Len(new) : new[i].name \in NamesGiven

\* A text with the exercise items "A" and "a " (and no workout) was imported
\* into a database without exercises: one exercise is returned.
C5_Witness ==
    /\ Imported
    /\ importer.variant = "none"
    /\ importer.existingExercises = <<>>
    /\ importer.document =
           JSONstringify(Document(<<ExerciseItem(<<"A">>), ExerciseItem(<<"a", " ">>)>>, <<>>))
    /\ Len(importer.result.newExercises) = 1
    /\ importer.result.newExercises[1].name = <<"A">>

\* C6: every workout that parseUniversalData returns has a name that differs,
\* ignoring case, from the name of every existing workout and of every other
\* workout of the same call; a name N that is taken becomes N followed by a
\* space and the smallest k >= 2 for which that is not taken, and a name that
\* is not taken is kept.
C6_WorkoutNamesDiffer ==
    (Imported /\ importer.result.error = "") =>
        LET new == importer.result.newWorkouts
            old == importer.existingWorkouts
            asked == importer.built.requested
            Taken(i, n) ==
                \/ \E e \in 1..Len(old) : toLowerCase(old[e].name) = toLowerCase(n)
                \/ \E j \in 1..(i - 1) : toLowerCase(new[j].name) = toLowerCase(n)
        IN  /\ \A i \in 1..Len(new) : \A e \in 1..Len(old) :
                   toLowerCase(new[i].name) # toLowerCase(old[e].name)
            /\ \A i, j \in 1..Len(new) :
                   i # j => toLowerCase(new[i].name) # toLowerCase(new[j].name)
            /\ \A i \in 1..Len(new) :
                   IF Taken(i, asked[i])
                   THEN \E k \in 2..(Len(old) + Len(new) + 2) :
                            /\ new[i].name = Suffixed(asked[i], k)
                            /\ ~Taken(i, Suffixed(asked[i], k))
                            /\ \A m \in 2..(k - 1) : Taken(i, Suffixed(asked[i], m))
                   ELSE new[i].name = asked[i]

\* Two workouts of the same name but for case were imported next to the
\* workouts "W" and "w 2": they are returned as "W 3" and "w 4".
C6_Witness ==
    /\ Imported
    /\ Len(importer.existingWorkouts) = 2
    /\ Len(importer.result.newWorkouts) = 2
    /\ importer.built.requested = <<(<<"W">>), (<<"w">>)>>
    /\ importer.result.newWorkouts[1].name = <<"W", " ", "3">>
    /\ importer.result.newWorkouts[2].name = <<"w", " ", "4">>

\* The ids a workout exercise may refer to.
KnownIds ==
    {importer.existingExercises[e].id : e \in 1..Len(importer.existingExercises)}
    \cup {importer.result.newExercises[i].id : i \in 1..Len(importer.result.newExercises)}

RefersToKnown ==
    \A w \in 1..Len(importer.result.newWorkouts) :
        \A x \in 1..Len(importer.result.newWorkouts[w].exercises) :
            importer.result.newWorkouts[w].exercises[x].exerciseId \in KnownIds

C8_ErrorAfterEveryRepair ==
    (Imported /\ importer.result.error = SyntaxError) =>
        /\ ~CompleteBracket(cleanJSON(importer.jsonString)).ok
        /\ ~CompleteBrace(cleanJSON(importer.jsonString)).ok
        /\ ~ExtractFirst(cleanJSON(importer.jsonString)).ok

\* C9: a valid document in a markdown fence, with smart quotes for its double
\* quotes, or with a comma before a closing bracket or brace, is parsed to
\* what the document itself is parsed to.
C9_VariantParsedAsDocument ==
    (Imported /\ importer.variant \in {"fence", "smart quotes", "trailing comma"}) =>
        importer.result = parseUniversalData(importer.document, importer.existingExercises,
                                             importer.existingWorkouts)

\* A document with a workout was imported with a trailing comma, and the
\* workout is returned.
C9_Witness ==
    /\ Imported
    /\ importer.variant = "trailing comma"
    /\ ~JSONparse(importer.jsonString).ok
    /\ importer.result.error = ""
    /\ Len(importer.result.newWorkouts) = 1

(***************************************************************************)
(* Further properties of the runner (Spec).                                *)
(***************************************************************************)
\* A workout with an exercise at least, and a set at least in each.
WellFormed(w) ==
    /\ Len(w.exercises) > 0
    /\ \A i \in 1..Len(w.exercises) : Len(w.exercises[i].sets) > 0

\* The position of the runner is one of its workout.
InBounds(s) ==
    /\ HasEx(s.workout, s.currentExIndex)
    /\ HasSet(s.workout, s.currentExIndex, s.currentSetIndex)

\* The life cycle with one stored workout, of three exercises: the first
\* without rests, the second with both.
WorkoutC ==
    MkWorkout("w3", "Circuit",
        << WorkoutExercise("e1", <<RepsSet(10), RepsSet(8)>>, 0, 0),
           WorkoutExercise("e2", <<TimeSet(1), RepsSet(10)>>, 1, 1),
           WorkoutExercise("e1", <<RepsSet(10)>>, 1, 0) >>)

InitProgress ==
    /\ idb = [exercises |-> StoredExercises, workouts |-> {WorkoutC},
              settings |-> {}, active_session |-> {}]
    /\ dbQueue = <<RefreshRequest>>
    /\ app = AppInit
    /\ aw = AwUnmounted
    /\ wm = WmMounted
    /\ hist = HistInit
    /\ importer = NoImport
    /\ backup = NoBackup
    /\ em = NoManager
    /\ images = NoImages

SpecProgress == InitProgress /\ [][Next]_vars

C16_NextSetProgression ==
    [][NextSet =>
          LET e == aw.currentExIndex
              s == aw.currentSetIndex
              wEx == aw.workout.exercises[aw.currentExIndex + 1]
              lastSet == s = Len(wEx.sets) - 1
              lastEx == e = Len(aw.workout.exercises) - 1
              rests(n) == aw'.isResting /\ aw'.restTimer = n
          IN  IF ~lastSet
              THEN /\ aw'.currentExIndex = e /\ aw'.currentSetIndex = s + 1
                   /\ ~aw'.showFinishConfirm
                   /\ IF wEx.restTime > 0 THEN rests(wEx.restTime) ELSE ~aw'.isResting
              ELSE IF ~lastEx
              THEN /\ ~aw'.showFinishConfirm
                   /\ IF wEx.restAfterExercise # Undefined /\ wEx.restAfterExercise > 0
                      THEN /\ aw'.currentExIndex = e /\ aw'.currentSetIndex = s
                           /\ rests(wEx.restAfterExercise)
                      ELSE /\ aw'.currentExIndex = e + 1 /\ aw'.currentSetIndex = 0
                           /\ ~aw'.isResting
              ELSE /\ aw'.showFinishConfirm
                   /\ aw'.currentExIndex = e /\ aw'.currentSetIndex = s
                   /\ ~aw'.isResting]_vars

\* nextSet was pressed at the last set of a first exercise that has no rest
\* after it: the runner is at the first set of the second exercise.
C16_Witness ==
    /\ aw.mounted
    /\ aw.workout.exercises[1].restAfterExercise = 0
    /\ aw.lastCompletedSet = [exIndex |-> 0, setIndex |-> Len(aw.workout.exercises[1].sets) - 1]
    /\ aw.currentExIndex = 1 /\ aw.currentSetIndex = 0
    /\ ~aw.isResting

(***************************************************************************)
(* The library: ExerciseManager and WorkoutManager create, edit,           *)
(* duplicate, import and delete exercises and workouts.  A handler is      *)
(* taken whole here, with the loadData or refreshData that ends it, so the *)
(* lists of the managers are those of the database after the last handler. *)
(***************************************************************************)
MaxExercises == 3
MaxWorkouts == 2
MaxImports == 1
MaxUuids == 2

\* ' (Copy)': the suffix of handleDuplicate, in English.
CopySuffix == <<" ", "(", "C", "o", "p", "y", ")">>

LibraryOpen(d) ==
    [state |-> "open", exercises |-> getExercises(d), workouts |-> getWorkouts(d),
     uuids |-> 0, imports |-> 0]

\* loadData of ExerciseManager, refreshData of WorkoutManager.
loadData(d, m) == [m EXCEPT !.exercises = getExercises(d), !.workouts = getWorkouts(d)]

\* The id of a form that creates: formData.id is undefined.
NoFormId == <<>>

\* exercises.find(e => e.name.trim().toLowerCase() === normalizedName &&
\* e.id !== formData.id)
DuplicateName(exercises, name, id) ==
    \E e \in exercises : toLowerCase(trim(e.name)) = toLowerCase(trim(name)) /\ e.id # id

\* The names typed in the exercise form.
FormNames == {<<"A">>, <<"a", " ">>, <<"B">>}

\* ExerciseManager.handleSave of a form with the id and the name; a form
\* without a name and a name that is taken save nothing.
ExerciseSave ==
    /\ em.state = "open"
    /\ \E name \in FormNames, id \in {NoFormId} \cup {e.id : e \in em.exercises} :
           /\ name # <<>>
           /\ ~DuplicateName(em.exercises, name, id)
           /\ id = NoFormId => (Cardinality(idb.exercises) < MaxExercises /\ em.uuids < MaxUuids)
           /\ idb' = [idb EXCEPT !.exercises =
                         Put(@, Exercise(IF id = NoFormId THEN randomUUID(em.uuids) ELSE id,
                                         name))]
           /\ em' = loadData(idb', [em EXCEPT !.uuids = IF id = NoFormId THEN @ + 1 ELSE @])
    /\ UNCHANGED <<dbQueue, app, aw, wm, hist, importer, backup, images>>

\* ExerciseManager.handleDuplicate
ExerciseDuplicate ==
    /\ em.state = "open"
    /\ Cardinality(idb.exercises) < MaxExercises
    /\ em.uuids < MaxUuids
    /\ \E e \in em.exercises :
           /\ idb' = [idb EXCEPT !.exercises =
                         Put(@, Exercise(randomUUID(em.uuids), e.name \o CopySuffix))]
           /\ em' = loadData(idb', [em EXCEPT !.uuids = @ + 1])
    /\ UNCHANGED <<dbQueue, app, aw, wm, hist, importer, backup, images>>

\* ExerciseManager.confirmDelete
ExerciseDelete ==
    /\ em.state = "open"
    /\ \E e \in em.exercises :
           /\ idb' = deleteExercise(idb, e.id)
           /\ em' = loadData(idb', em)
    /\ UNCHANGED <<dbQueue, app, aw, wm, hist, importer, backup, images>>

\* handleAddSelectedExercises: the entry of a selected exercise.  The
\* defaults of the exercise are those that createExercise and openCreate
\* give it.
AddedEntry(id) ==
    WorkoutExercise(id, <<RepsSet(10), RepsSet(10), RepsSet(10)>>, DefaultRest, 60)

\* Without(s, i): the sequence without its i-th element (splice(idx, 1)).
Spliced(s, i) == [k \in 1..(Len(s) - 1) |-> IF k < i THEN s[k] ELSE s[k + 1]]

\* What the workout editor may hold when it is saved: a new workout with the
\* exercises selected from allExercises, or a stored workout with one of its
\* exercises removed.
Drafts(m) ==
    {MkWorkout(randomUUID(m.uuids), <<"W">>, [i \in 1..Len(sel) |-> AddedEntry(sel[i].id)]) :
        sel \in {ArrayOf(S) : S \in SUBSET m.exercises}}
    \cup {[w EXCEPT !.exercises = Spliced(@, i)] :
            w \in {v \in m.workouts : Len(v.exercises) > 0}, i \in {1}}

\* WorkoutManager.handleSave
WorkoutSave ==
    /\ em.state = "open"
    /\ \E draft \in Drafts(em) :
           /\ draft.id = randomUUID(em.uuids) =>
                  (Cardinality(idb.workouts) < MaxWorkouts /\ em.uuids < MaxUuids)
           /\ idb' = [idb EXCEPT !.workouts = Put(@, draft)]
           /\ em' = loadData(idb', [em EXCEPT !.uuids =
                                       IF draft.id = randomUUID(em.uuids) THEN @ + 1 ELSE @])
    /\ UNCHANGED <<dbQueue, app, aw, wm, hist, importer, backup, images>>

\* WorkoutManager.handleDuplicate
WorkoutDuplicate ==
    /\ em.state = "open"
    /\ Cardinality(idb.workouts) < MaxWorkouts
    /\ em.uuids < MaxUuids
    /\ \E w \in em.workouts :
           /\ idb' = [idb EXCEPT !.workouts =
                         Put(@, [w EXCEPT !.id = randomUUID(em.uuids),
                                          !.name = @ \o CopySuffix])]
           /\ em' = loadData(idb', [em EXCEPT !.uuids = @ + 1])
    /\ UNCHANGED <<dbQueue, app, aw, wm, hist, importer, backup, images>>

\* WorkoutManager.confirmDelete; no session is stored here.
WorkoutDelete ==
    /\ em.state = "open"
    /\ \E w \in em.workouts :
           /\ idb' = deleteWorkout(idb, w.id)
           /\ em' = loadData(idb', em)
    /\ UNCHANGED <<dbQueue, app, aw, wm, hist, importer, backup, images>>

\* The ids of one call of parseUniversalData are fresh: they are told from
\* those of any other call by the number of the call.
FreshId(id, fresh, call) ==
    IF id \in fresh THEN id \o <<"/">> \o NumToString(call) ELSE id

\* What saveExercise and saveWorkout store of what parseUniversalData returns.
ImportedExercise(ex, fresh, call) == Exercise(FreshId(ex.id, fresh, call), ex.name)

ImportedWorkout(w, fresh, call) ==
    MkWorkout(FreshId(w.id, {w.id}, call), w.name,
              [i \in 1..Len(w.exercises) |->
                  WorkoutExercise(FreshId(w.exercises[i].exerciseId, fresh, call),
                                  [k \in 1..Len(w.exercises[i].sets) |->
                                      [type |-> w.exercises[i].sets[k].type,
                                       value |-> w.exercises[i].sets[k].value,
                                       weight |-> w.exercises[i].sets[k].weight]],
                                  w.exercises[i].restTime, w.exercises[i].restAfterExercise)])

\* for (const ex of validatedExercises) saveExercise(ex); for (const w of
\* newWorkouts) saveWorkout(w)
SaveImported(d, result, call) ==
    [d EXCEPT
        !.exercises = @ \cup
            {ImportedExercise(result.newExercises[i],
                              {result.newExercises[k].id : k \in 1..Len(result.newExercises)},
                              call) : i \in 1..Len(result.newExercises)},
        !.workouts = @ \cup
            {ImportedWorkout(result.newWorkouts[i],
                             {result.newExercises[k].id : k \in 1..Len(result.newExercises)},
                             call) : i \in 1..Len(result.newWorkouts)}]

\* The texts pasted in the import dialog: the exercises A and B, and a
\* workout of the entries "a " and "C".
PastedTexts ==
    {JSONstringify(Document(<<ExerciseItem(<<"A">>), ExerciseItem(<<"B">>)>>,
                            <<WorkoutItem(<<"V">>, <<EntryItem(<<"a", " ">>),
                                                     EntryItem(<<"C">>)>>)>>))}

\* handleMassImport of either manager; a text that parseUniversalData
\* refuses stores nothing.
MassImport ==
    /\ em.state = "open"
    /\ em.imports < MaxImports
    /\ \E text \in PastedTexts :
           /\ parseUniversalData(text, ArrayOf(em.exercises), ArrayOf(em.workouts)).error = ""
           /\ idb' = SaveImported(idb,
                                  parseUniversalData(text, ArrayOf(em.exercises),
                                                     ArrayOf(em.workouts)),
                                  em.imports + 1)
           /\ em' = loadData(idb', [em EXCEPT !.imports = @ + 1])
    /\ UNCHANGED <<dbQueue, app, aw, wm, hist, importer, backup, images>>

\* The library when the page opens: names are unique, and the workout, if
\* there is one, refers to the stored exercise.
InitLibrary ==
    /\ idb \in {[exercises |-> {Exercise(<<"e", "1">>, <<"A">>)}, workouts |-> W,
                 settings |-> {}, active_session |-> {}] :
                   W \in {{}, {MkWorkout(<<"w", "1">>, <<"W">>, <<AddedEntry(<<"e", "1">>)>>)}}}
    /\ em = LibraryOpen(idb)
    /\ dbQueue = <<>>
    /\ app = AppInit
    /\ aw = AwUnmounted
    /\ wm = WmMounted
    /\ hist = HistInit
    /\ importer = NoImport
    /\ backup = NoBackup
    /\ images = NoImages

NextLibrary ==
    \/ ExerciseSave
    \/ ExerciseDuplicate
    \/ ExerciseDelete
    \/ WorkoutSave
    \/ WorkoutDuplicate
    \/ WorkoutDelete
    \/ MassImport

SpecLibrary == InitLibrary /\ [][NextLibrary]_vars

(***************************************************************************)
(* Properties of the library (SpecLibrary).                                *)
(***************************************************************************)
\* C13: no two stored exercises have the same name, ignoring case and
\* surrounding white space.
C13_ExerciseNamesUnique ==
    \A e1, e2 \in idb.exercises : e1 # e2 => NormName(e1.name) # NormName(e2.name)

\* C17: every exerciseId of every stored workout is the id of a stored
\* exercise.
C17_ReferencesStored ==
    \A w \in idb.workouts : \A i \in 1..Len(w.exercises) :
        w.exercises[i].exerciseId \in {e.id : e \in idb.exercises}

(***************************************************************************)
(* The image loading queue of OptimizedImage: the module variables         *)
(* LOAD_QUEUE, activeDownloads and isQueueProcessing, and the components   *)
(* that register with it.  A callback of the queue is the component that   *)
(* enqueued it.  A component is told by its number; one that is unmounted  *)
(* never comes back, a new one takes its place.                            *)
(***************************************************************************)
MAX_CONCURRENT_DOWNLOADS == 3
MaxImages == 4
MaxSrcChanges == 1

Components == 1..MaxImages

\* isGif: the sources of every second component are GIFs.
isGif(c) == c % 2 = 0

\* The component before its queue registration effect has run with its
\* condition true; then mountedRef.current, the allowedToLoad and hasError
\* states, and the loads of its image that were started and have not
\* finished.  The isLoaded state only fades the skeleton out.
NoComponent ==
    [registered |-> FALSE, mounted |-> FALSE, allowedToLoad |-> FALSE,
     hasError |-> FALSE, loads |-> 0]

ImagesInit ==
    [state |-> "queue", LOAD_QUEUE |-> <<>>, activeDownloads |-> 0,
     isQueueProcessing |-> FALSE, timers |-> 0, changes |-> 0,
     comp |-> [c \in Components |-> NoComponent]]

\* releaseImageLoad: the processQueue of its timer runs in ReleaseTimer.
releaseImageLoad(g) == [g EXCEPT !.activeDownloads = @ - 1, !.timers = @ + 1]

\* setAllowedToLoad(true) and the render that follows: the <img> starts to
\* load, or the GIF effect starts the load of a new Image.  A component that
\* is allowed already is not rendered again.
Allow(g, c) ==
    IF g.comp[c].allowedToLoad THEN g
    ELSE [g EXCEPT !.comp[c].allowedToLoad = TRUE, !.comp[c].loads = @ + 1]

\* The callback that the component c enqueued.
nextLoad(g, c) == IF g.comp[c].mounted THEN Allow(g, c) ELSE releaseImageLoad(g)

\* One turn of the while loop of processQueue, up to its await, or the exit
\* of the loop through finally; the condition of the finally block is that
\* of the loop, which has just failed.
ProcessLoop(g) ==
    IF Len(g.LOAD_QUEUE) > 0 /\ g.activeDownloads < MAX_CONCURRENT_DOWNLOADS
    THEN nextLoad([g EXCEPT !.LOAD_QUEUE = Tail(@), !.activeDownloads = @ + 1,
                            !.isQueueProcessing = TRUE],
                  Head(g.LOAD_QUEUE))
    ELSE [g EXCEPT !.isQueueProcessing = FALSE]

processQueue(g) == IF g.isQueueProcessing THEN g ELSE ProcessLoop(g)

enqueueImageLoad(g, c) == processQueue([g EXCEPT !.LOAD_QUEUE = Append(@, c)])

\* The queue registration effect of a component that is mounted and in
\* view, for the first time.
Register(c) ==
    /\ images.state = "queue"
    /\ ~images.comp[c].registered
    /\ c > 1 => images.comp[c - 1].registered
    /\ images' = enqueueImageLoad(
                      [images EXCEPT !.comp[c].registered = TRUE, !.comp[c].mounted = TRUE], c)
    /\ UNCHANGED <<idb, dbQueue, app, aw, wm, hist, importer, backup, em>>

\* The parent gives the component another src of the same kind.  The
\* registration effect runs again; an <img> that is rendered loads the new
\* source in place of the old one, and the GIF effect loads a new Image.
SrcChange(c) ==
    /\ images.state = "queue"
    /\ images.comp[c].mounted
    /\ ~images.comp[c].hasError
    /\ images.changes < MaxSrcChanges
    /\ images' =
           IF ~images.comp[c].allowedToLoad
           THEN enqueueImageLoad([images EXCEPT !.changes = @ + 1], c)
           ELSE [images EXCEPT !.changes = @ + 1,
                               !.comp[c].loads = IF isGif(c) THEN @ + 1 ELSE 1]
    /\ UNCHANGED <<idb, dbQueue, app, aw, wm, hist, importer, backup, em>>

\* handleImgLoad of the <img>, img.onload of the GIF effect.
Loaded(c) ==
    /\ images.state = "queue"
    /\ images.comp[c].loads > 0
    /\ images' =
           IF isGif(c) /\ ~images.comp[c].mounted
           THEN [images EXCEPT !.comp[c].loads = @ - 1]
           ELSE releaseImageLoad([images EXCEPT !.comp[c].loads = @ - 1])
    /\ UNCHANGED <<idb, dbQueue, app, aw, wm, hist, importer, backup, em>>

\* handleImgError of the <img>, img.onerror of the GIF effect.  The
\* component that has an error renders no <img>.
Failed(c) ==
    /\ images.state = "queue"
    /\ images.comp[c].loads > 0
    /\ images' =
           IF isGif(c) /\ ~images.comp[c].mounted
           THEN [images EXCEPT !.comp[c].loads = @ - 1]
           ELSE releaseImageLoad(
                    [images EXCEPT !.comp[c].loads = IF isGif(c) THEN @ - 1 ELSE 0,
                                   !.comp[c].hasError = IF images.comp[c].mounted THEN TRUE ELSE @])
    /\ UNCHANGED <<idb, dbQueue, app, aw, wm, hist, importer, backup, em>>

\* The component is unmounted.  The load of its <img> goes on in the
\* detached element and its handlers run, or it is abandoned with the
\* element; the Image of the GIF effect goes on loading.
Unmount(c) ==
    /\ images.state = "queue"
    /\ images.comp[c].mounted
    /\ \E abandoned \in BOOLEAN :
           /\ abandoned => (~isGif(c) /\ images.comp[c].loads > 0)
           /\ images' = [images EXCEPT !.comp[c].mounted = FALSE,
                                       !.comp[c].loads = IF abandoned THEN 0 ELSE @]
    /\ UNCHANGED <<idb, dbQueue, app, aw, wm, hist, importer, backup, em>>

\* The 50 ms of the loop of processQueue have passed.
QueueTimer ==
    /\ images.state = "queue"
    /\ images.isQueueProcessing
    /\ images' = ProcessLoop(images)
    /\ UNCHANGED <<idb, dbQueue, app, aw, wm, hist, importer, backup, em>>

\* The 10 ms of a releaseImageLoad have passed.
ReleaseTimer ==
    /\ images.state = "queue"
    /\ images.timers > 0
    /\ images' = processQueue([images EXCEPT !.timers = @ - 1])
    /\ UNCHANGED <<idb, dbQueue, app, aw, wm, hist, importer, backup, em>>

InitImages ==
    /\ images = ImagesInit
    /\ idb = [exercises |-> {}, workouts |-> {}, settings |-> {}, active_session |-> {}]
    /\ dbQueue = <<>>
    /\ app = AppInit
    /\ aw = AwUnmounted
    /\ wm = WmMounted
    /\ hist = HistInit
    /\ importer = NoImport
    /\ backup = NoBackup
    /\ em = NoManager

NextImages ==
    \/ \E c \in Components : Register(c)
    \/ \E c \in Components : SrcChange(c)
    \/ \E c \in Components : Loaded(c)
    \/ \E c \in Components : Failed(c)
    \/ \E c \in Components : Unmount(c)
    \/ QueueTimer
    \/ ReleaseTimer

SpecImages == InitImages /\ [][NextImages]_vars

\* The timers fire, and every load that was started loads or fails.
SpecImagesFair ==
    /\ SpecImages
    /\ WF_vars(QueueTimer)
    /\ WF_vars(ReleaseTimer)
    /\ \A c \in Components : WF_vars(Loaded(c) \/ Failed(c))

RECURSIVE LoadsUpTo(_)
LoadsUpTo(n) == IF n = 0 THEN 0 ELSE images.comp[n].loads + LoadsUpTo(n - 1)

\* The image loads that were started and have not finished.
LoadsInFlight == LoadsUpTo(MaxImages)

Waiting(c) == \E i \in 1..Len(images.LOAD_QUEUE) : images.LOAD_QUEUE[i] = c

(***************************************************************************)
(* Properties of the image loading queue.                                  *)
(***************************************************************************)
\* C14: at no time are more than MAX_CONCURRENT_DOWNLOADS image loads
\* started and not yet finished (SpecImages).
C14_AtMostThreeLoads ==
    images.state = "queue" => LoadsInFlight <= MAX_CONCURRENT_DOWNLOADS

\* C15: every image load that is enqueued is eventually started, that is
\* taken from the queue, when the timers fire and every started load
\* finishes (SpecImagesFair).
C15_EnqueuedEventuallyStarted ==
    \A c \in Components : (images.state = "queue" /\ Waiting(c)) ~> ~Waiting(c)

(***************************************************************************)
(* The runner and the editor: between two runs of a workout the user       *)
(* removes an exercise from it in the editor of the manager.               *)
(***************************************************************************)
\* removeExerciseFromWorkout(idx): newEx.splice(idx, 1)
removeExerciseFromWorkout(w, idx) == [w EXCEPT !.exercises = Spliced(@, idx + 1)]

\* The exercises handleSave stores: Number(x) || 0 of the rests.
SanitizedExercises(w) ==
    [i \in 1..Len(w.exercises) |->
        [w.exercises[i] EXCEPT
            !.restTime = IF @ = Undefined THEN 0 ELSE @,
            !.restAfterExercise = IF @ = Undefined THEN 0 ELSE @]]

\* handleEdit of the selected workout, removeExerciseFromWorkout(idx) and
\* handleSave, which stores the workout, refreshes the lists and shows the
\* stored workout; no other request is in flight, and the handler is taken
\* whole.
SaveEdited(idx) ==
    /\ WmIdle
    /\ wm.mode = "detail"
    /\ dbQueue = <<>>
    /\ HasEx(wm.selectedWorkout, idx)
    /\ wm.selectedWorkout.name # ""
    /\ LET edited == removeExerciseFromWorkout(wm.selectedWorkout, idx)
           final == [edited EXCEPT !.exercises = SanitizedExercises(edited)]
       IN  /\ idb' = [idb EXCEPT !.workouts = Put(@, final)]
           /\ wm' = [wm EXCEPT !.workouts = getWorkouts(idb'),
                               !.activeSession = getActiveSession(idb'),
                               !.selectedWorkout = Get(getWorkouts(idb'), final.id, NoWorkout),
                               !.mode = "detail"]
    /\ hist' = HistStep(hist, aw)
    /\ UNCHANGED <<dbQueue, app, aw, importer, backup, em, images>>

NextEditor ==
    \/ Next
    \/ \E idx \in 0..1 : SaveEdited(idx)

SpecEditor == Init /\ [][NextEditor]_vars

(***************************************************************************)
(* Properties of the runner when workouts are edited (SpecEditor).         *)
(***************************************************************************)
\* C18: a runner that has loaded shows its close button, or one of its
\* overlays (the rest, the confirmation of the finish) that lead back to it:
\* the user can close it.
C18_RunnerCanBeClosed ==
    (aw.mounted /\ ~aw.isLoading) =>
        \/ ControlsFree(aw)
        \/ Displayed(aw) /\ (aw.isResting \/ aw.showFinishConfirm)

\* C19: the position of a resumed runner is one of its workout, as it is
\* stored when the runner resumes, when the workout has an exercise at least
\* and each exercise a set.
C19_ResumedInBounds ==
    (aw.mounted /\ aw.resume /\ ~aw.isLoading /\ aw.workout \in getWorkouts(idb)
        /\ WellFormed(aw.workout)) => InBounds(aw)

(***************************************************************************)
(* The finish of a workout (Spec).                                         *)
(***************************************************************************)
\* A save of the session that was issued and has not reached the store; it
\* reaches it in DbSaveActiveSession, whether the runner is mounted or not.
SaveUnderWay(queue) == \E i \in 1..Len(queue) : queue[i].op = "saveActiveSession"

\* C20: when the confirmed finish closes the view, no session is stored and
\* no save of a session is still to reach the store.
C20_FinishLeavesNoSession ==
    [][AwFinishCleared => (idb'.active_session = {} /\ ~SaveUnderWay(dbQueue'))]_vars

(***************************************************************************)
(* The end of a rest.  The updates of the interval callback are batched    *)
(* and rendered in a later task of the browser; a press on the skip button *)
(* that the browser delivers before that task runs the handler of the      *)
(* render that is still on the screen, and both sets of updates are        *)
(* rendered together.  Whether the press can come first is the scheduler's *)
(* choice: the life cycle below has the tick that is rendered at once      *)
(* (Tick) and the tick that is followed by the press (TickThenSkip).       *)
(***************************************************************************)
\* handleSkipRest of the render c, its updates applied to the state r that
\* the updates before it ask for.
handleSkipRestOn(c, r) ==
    LET r2 == [r EXCEPT !.isResting = FALSE, !.lastCompletedSet = NoCompletedSet]
    IN  IF c.afterExerciseRest
        THEN [nextExercise(r2, c.currentExIndex) EXCEPT !.afterExerciseRest = FALSE]
        ELSE r2

\* The interval fires and the skip button is pressed before the render.
TickThenSkip ==
    /\ aw.mounted
    /\ aw.isTimerRunning => aw.timer < MaxTimer
    /\ SkipShown(aw)
    /\ AwStep(handleSkipRestOn(aw, IntervalCallback(aw)))

NextRest ==
    \/ Next
    \/ TickThenSkip

SpecRest == Init /\ [][NextRest]_vars

\* A step that ends the rest after the last set of an exercise.
EndsExerciseRest ==
    aw.mounted /\ aw.isResting /\ aw.afterExerciseRest /\ aw'.mounted /\ ~aw'.isResting

(***************************************************************************)
(* Properties of the end of a rest.                                        *)
(***************************************************************************)
\* C21: the step that ends a rest after the last set of an exercise moves to
\* the first set of the next exercise: currentExIndex increases by one and
\* currentSetIndex becomes 0 (SpecRest).
C21_ExerciseRestEndsOnce ==
    [][EndsExerciseRest =>
          (aw'.currentExIndex = aw.currentExIndex + 1 /\ aw'.currentSetIndex = 0)]_vars

(***************************************************************************)
(* The runner while time passes: the interval fires every second as long   *)
(* as the runner is mounted, and every call of the database completes.     *)
(***************************************************************************)
\* The runner and what starts it: the manager's deletions and the settings
\* are left aside.
NextRunner ==
    \/ Tick
    \/ NextSet
    \/ PrevSet
    \/ NextExercise
    \/ PrevExercise
    \/ SkipRest
    \/ ToggleTimer
    \/ CancelFinish
    \/ ConfirmFinish
    \/ Close
    \/ AwInitGotExercises
    \/ AwInitSession
    \/ AwFinishCleared
    \/ DbSaveActiveSession
    \/ WmRefreshed
    \/ \E w \in wm.workouts : SelectWorkout(w)
    \/ \E resume \in BOOLEAN : StartWorkout(resume)

\* The call at the head of the queue completes.
DbCompletes ==
    \/ DbSaveActiveSession
    \/ AwInitGotExercises
    \/ AwInitSession
    \/ AwFinishCleared
    \/ WmRefreshed

SpecRunner == Init /\ [][NextRunner]_vars

SpecTicking == SpecRunner /\ WF_vars(Tick) /\ WF_vars(DbCompletes)

\* The ticks a rest still needs fit below the bound of the elapsed timer.
RestFits(s) == s.isTimerRunning => s.timer + s.restTimer < MaxTimer

MaxDraftExercises == 2

\* The rests a field of the editor may hold: none (an empty field), 0, 1 and
\* the default.
EditorRests == {Undefined, 0, 1, DefaultRest}

\* The workouts of the editor: one to MaxDraftExercises exercises of one set.
EditorWorkouts ==
    UNION {{MkWorkout("w1", "Push",
                      [i \in 1..n |-> WorkoutExercise("e1", <<RepsSet(10)>>,
                                                      rests[i][1], rests[i][2])]) :
               rests \in [1..n -> EditorRests \X EditorRests]} : n \in 1..MaxDraftExercises}

\* The manager with the workout in its editor.
WmEditing(draft) ==
    [editingWorkout |-> draft] @@
    [WmMounted EXCEPT !.loaded = TRUE, !.mode = "edit"]

\* handleSave: the workout is stored with its numbers sanitised, the lists
\* are refreshed and the stored workout, as getWorkouts returns it, is shown.
HandleSave ==
    /\ wm.mounted /\ wm.mode = "edit"
    /\ wm.editingWorkout.name # ""
    /\ LET final == [wm.editingWorkout EXCEPT !.exercises = SanitizedExercises(wm.editingWorkout)]
       IN  /\ idb' = [idb EXCEPT !.workouts = Put(@, final)]
           /\ wm' = [wm EXCEPT !.workouts = getWorkouts(idb'),
                               !.activeSession = getActiveSession(idb'),
                               !.selectedWorkout = Get(getWorkouts(idb'), final.id, NoWorkout),
                               !.mode = "detail"]
    /\ UNCHANGED <<dbQueue, app, aw, hist, importer, backup, em, images>>

\* handleEdit: the workout that is shown goes to the editor.
HandleEdit ==
    /\ wm.mounted /\ wm.mode = "detail"
    /\ wm.editingWorkout # wm.selectedWorkout
    /\ wm' = [wm EXCEPT !.editingWorkout = wm.selectedWorkout, !.mode = "edit"]
    /\ UNCHANGED <<idb, dbQueue, app, aw, hist, importer, backup, em, images>>

InitSave ==
    /\ \E draft \in EditorWorkouts : wm = WmEditing(draft)
    /\ idb = [exercises |-> StoredExercises, workouts |-> {}, settings |-> {},
              active_session |-> {}]
    /\ dbQueue = <<>>
    /\ app = AppInit
    /\ aw = AwUnmounted
    /\ hist = HistInit
    /\ importer = NoImport
    /\ backup = NoBackup
    /\ em = NoManager
    /\ images = NoImages

NextSave ==
    \/ HandleSave
    \/ HandleEdit

SpecSave == InitSave /\ [][NextSave]_vars

\* The rests of the exercises of a workout.
RestsOf(w) ==
    [i \in 1..Len(w.exercises) |-> <<w.exercises[i].restTime, w.exercises[i].restAfterExercise>>]

(***************************************************************************)
(* Properties of the editor's save (SpecSave).                             *)
(***************************************************************************)
\* C23: getWorkouts returns every stored workout with the rests between
\* sets and after the exercise that handleSave stored.
C23_RestsReadBack ==
    \A w \in idb.workouts : RestsOf(SanitizeWorkout(w)) = RestsOf(w)

(***************************************************************************)
(* Texts that are valid JSON as they are given, with string values that    *)
(* look like what cleanJSON removes.                                       *)
(***************************************************************************)
MaxLinkedItems == 2

\* The values of imageUrl: a plain one, an address after its scheme, a block
\* comment, a code fence, a comma before a bracket, a smart quote.
ImageUrls ==
    {<<"x">>, <<"/", "/", "x">>, <<"/", "*", "x", "*", "/">>, Fence, <<",", "]">>,
     <<LeftDoubleQuote>>}

LinkedItem(name, url) ==
    JObj(<<Member(Key.name, JStr(name)), Member(Key.imageUrl, JStr(url))>>)

LinkedDocuments(most) ==
    UNION {{Document([i \in 1..n |-> LinkedItem(items[i][1], items[i][2])], <<>>) :
               items \in [1..n -> {<<"A">>, <<"B">>} \X ImageUrls]} : n \in 1..most}

\* The import dialog with a valid JSON text of at most so many items typed in.
ValidInputs(most) ==
    {ImportOpen(JSONstringify(d), "none", JSONstringify(d), <<>>, <<>>) :
        d \in LinkedDocuments(most)}

InitValid ==
    /\ idb = [exercises |-> {}, workouts |-> {}, settings |-> {}, active_session |-> {}]
    /\ dbQueue = <<>>
    /\ app = AppInit
    /\ aw = AwUnmounted
    /\ wm = WmMounted
    /\ hist = HistInit
    /\ importer \in ValidInputs(MaxLinkedItems)
    /\ backup = NoBackup
    /\ em = NoManager
    /\ images = NoImages

SpecValid == InitValid /\ [][NextParse]_vars

\* What parseUniversalData would return if raw were JSON.parse(jsonString).
ReadAsGiven(jsonString, existingExercises, existingWorkouts) ==
    Outcome(BuiltOf(JSONparse(jsonString), existingExercises, existingWorkouts))

(***************************************************************************)
(* Properties of the cleaning of valid JSON (SpecValid).                   *)
(***************************************************************************)
\* C24: of a text that is valid JSON, parseUniversalData reads the values
\* that JSON.parse of the text gives.
C24_ValidJSONReadAsGiven ==
    (importer.state = "done" /\ JSONparse(importer.jsonString).ok) =>
        importer.result = ReadAsGiven(importer.jsonString, importer.existingExercises,
                                      importer.existingWorkouts)

(***************************************************************************)
(* Workouts whose entries give the number of their sets in every way a     *)
(* JSON text can: no 'sets' at all, a number that is zero, positive or     *)
(* negative, a text, a boolean, null.                                      *)
(***************************************************************************)
MaxSetEntries == 2

SetsValues ==
    {JUndefined, JNum(0), JNum(1), JNum(2), JNum(0 - 1), JStr(<<"2">>), JStr(<<"x">>),
     JBool(TRUE), JNull}

SetsEntry(name, sets) == JObj(<<Member(Key.name, JStr(name)), Member(Key.sets, sets)>>)

SetsDocuments(most) ==
    UNION {{Document(<<>>, <<WorkoutItem(<<"W">>,
                                 [i \in 1..n |-> SetsEntry(items[i][1], items[i][2])])>>) :
               items \in [1..n -> {<<"A">>, <<"B">>} \X SetsValues]} : n \in 1..most}

\* The import dialog with such a workout of at most so many entries typed in.
SetsInputs(most) ==
    {ImportOpen(JSONstringify(d), "none", JSONstringify(d), <<>>, <<>>) :
        d \in SetsDocuments(most)}

InitSets ==
    /\ idb = [exercises |-> {}, workouts |-> {}, settings |-> {}, active_session |-> {}]
    /\ dbQueue = <<>>
    /\ app = AppInit
    /\ aw = AwUnmounted
    /\ wm = WmMounted
    /\ hist = HistInit
    /\ importer \in SetsInputs(MaxSetEntries)
    /\ backup = NoBackup
    /\ em = NoManager
    /\ images = NoImages

SpecSets == InitSets /\ [][NextParse]_vars

\* The entries given for the workout typed in.
GivenEntries == Prop(Head(Prop(JSONparse(importer.jsonString).v, Key.workouts).a),
                     Key.exercises).a

\* The number of sets the entry is to have: its 'sets' when that is a
\* positive integer, 3 otherwise.
SetsToHave(exItem) ==
    IF Prop(exItem, Key.sets).t = "number" /\ Prop(exItem, Key.sets).n > 0
    THEN Prop(exItem, Key.sets).n
    ELSE 3

(***************************************************************************)
(* Properties of the number of sets (SpecSets).                            *)
(***************************************************************************)
\* C25: every workout exercise that parseUniversalData returns has at least
\* one set, as many as the entry's 'sets' when that is a positive integer
\* and 3 otherwise.
C25_SetsAsGivenOrThree ==
    (importer.state = "done" /\ importer.result.error = "") =>
        \A w \in 1..Len(importer.result.newWorkouts) :
            LET exercises == importer.result.newWorkouts[w].exercises
            IN  /\ Len(exercises) = Len(GivenEntries)
                /\ \A i \in 1..Len(exercises) :
                       /\ Len(exercises[i].sets) >= 1
                       /\ Len(exercises[i].sets) = SetsToHave(GivenEntries[i])

(***************************************************************************)
(* The countdown of a time-based set: the three buttons under it, pressed  *)
(* on the render on screen or, as handleSkipRest above, on the render      *)
(* that an interval callback has not yet replaced.                         *)
(***************************************************************************)
\* The set at the position of the runner.
CurrentSet(s) == SetsOf(s.workout, s.currentExIndex)[s.currentSetIndex + 1]

\* The current set is time-based.
TimeSetCurrent(s) ==
    HasSet(s.workout, s.currentExIndex, s.currentSetIndex) /\ CurrentSet(s).type = "time"

\* The buttons under the countdown are rendered and can be pressed.
CountdownShown(s) == ControlsFree(s) /\ TimeSetCurrent(s)

\* The button shown at 0: the countdown starts again from the set's value.
\* c is the render whose handler runs, r the state its updates apply to.
restartCountdownOn(c, r) ==
    [r EXCEPT !.setCountdown = CurrentSet(c).value, !.isSetCountdownRunning = TRUE]

\* The pause/play button: setIsSetCountdownRunning(!isSetCountdownRunning).
toggleCountdownOn(c, r) == [r EXCEPT !.isSetCountdownRunning = ~c.isSetCountdownRunning]

\* The reset button: the set's value again, stopped.
resetCountdownOn(c, r) ==
    [r EXCEPT !.setCountdown = CurrentSet(c).value, !.isSetCountdownRunning = FALSE]

RestartCountdown ==
    /\ CountdownShown(aw) /\ aw.setCountdown = 0
    /\ AwStep(restartCountdownOn(aw, aw))

ToggleCountdown ==
    /\ CountdownShown(aw) /\ aw.setCountdown # 0
    /\ AwStep(toggleCountdownOn(aw, aw))

ResetCountdown ==
    /\ CountdownShown(aw) /\ aw.setCountdown # 0
    /\ AwStep(resetCountdownOn(aw, aw))

\* The interval fires and a countdown button of the render still on screen
\* is pressed before the updates of the callback are rendered.
TickThenCountdownButton ==
    /\ aw.mounted
    /\ aw.isTimerRunning => aw.timer < MaxTimer
    /\ CountdownShown(aw)
    /\ \/ aw.setCountdown = 0 /\ AwStep(restartCountdownOn(aw, IntervalCallback(aw)))
       \/ aw.setCountdown # 0 /\ AwStep(toggleCountdownOn(aw, IntervalCallback(aw)))
       \/ aw.setCountdown # 0 /\ AwStep(resetCountdownOn(aw, IntervalCallback(aw)))

NextCountdown ==
    \/ NextRunner
    \/ TickThenSkip
    \/ RestartCountdown
    \/ ToggleCountdown
    \/ ResetCountdown
    \/ TickThenCountdownButton

SpecCountdown == Init /\ [][NextCountdown]_vars

\* The position of the runner.
Position(s) == <<s.currentExIndex, s.currentSetIndex>>

====
